---------------------------- MODULE Spec2Model ----------------------------
(***************************************************************************)
(* A model of image2ascii: the Image2ASCII converter (core.py), its glyph  *)
(* shapes (geometry.py) and its Output buffer (output.py).                  *)
(*                                                                         *)
(* Floats are modelled exactly: a float is a pair <<n, d>> standing for    *)
(* n / d, and round() is Python's round-half-to-even.  An optional value   *)
(* is a sequence of length at most one: <<>> is None, <<x>> is x.          *)
(***************************************************************************)
EXTENDS Integers, Sequences, FiniteSets, TLC

VARIABLES
    image,      \* Image2ASCII.image: None or the loaded RGBA image
    cfg,        \* the settings of Image2ASCII (_ascii_width, _quality, ...)
    shapes,     \* Image2ASCII.shapes: the glyph catalog built by init_shapes
    resized,    \* do_resize(image): the outcome of one application
    resized2,   \* do_resize(do_resize(image)): the outcome of a second one
    prepared,   \* prepare_image(): the image it returns, or the error
    section,    \* the boolean matrix of one section handed to the glyphs
    lk,         \* the last likeness computed: the glyph's index and the score
    char,       \* what get_char returned: the character and the likeness calls
    matrix,     \* get_matrix(image): the matrix handed to the renderer
    pc,         \* position of the driver of the pure-function specifications
    output,     \* Image2ASCII.output: None or the Output of the last render
    ret,        \* what the last call returned, or the error it raised
    last_text,  \* the text of the last successful render, if still current
    recomputed, \* the last call ran prepare_image
    op,         \* the kind of the last call: init, set, load or render
    changes,    \* the number of setter and settings calls made
    dropped,    \* the kind of call that last reset a stored output
    failed,     \* a render has raised for want of an image
    file,       \* the decoded file that load was last called with
    config,     \* Config._fields: the value of every field of a Config
    notified,   \* the names that the Config's listener was told have changed
    attempt,    \* the last assignment to the Config: the name and the value
    formatter,  \* a formatter that a caller keeps: its class, converter, open_span
    passed,     \* the arguments of the last setter, settings or Output call
    crop_box,   \* get_crop_box(matrix): the box it returned
    shelf,      \* ShelfDB: shelf["sessions"], the stored sessions by uuid
    now,        \* datetime.now(), in days
    removed     \* the files that the last purge called os.remove for

vars == <<image, cfg, shapes, resized, resized2, prepared, section, lk, char, matrix, pc,
          output, ret, last_text, recomputed, op, changes, dropped, failed, file,
          config, notified, attempt, formatter, passed, crop_box, shelf, now, removed>>

\* The variables of the converter's calls, and those of the functions
\* taken on their own
conv == <<output, ret, last_text, recomputed, op, changes, dropped, failed, file,
          config, notified, attempt, formatter, passed, crop_box, shelf, now, removed>>
conf == <<config, notified, attempt>>
held == <<formatter, passed, crop_box>>
store == <<shelf, now, removed>>
pure == <<resized, resized2, prepared, section, lk, char, matrix, pc>>

-----------------------------------------------------------------------------
(* Bounds *)

MaxDim == 3          \* largest width and height of a source image
MaxWidth == 3        \* largest ascii_width
MaxQuality == 2      \* largest quality
MaxRows == 2         \* largest ascii_max_height
MaxArea == 8         \* largest number of pixels of a section handed to a glyph
MaxChanges == 1      \* largest number of setter and settings calls on a converter

-----------------------------------------------------------------------------
(* Optional values and numbers *)

None == <<>>
Some(x) == <<x>>
Val(o) == o[1]

Min(a, b) == IF a < b THEN a ELSE b
Max(a, b) == IF a > b THEN a ELSE b

\* Python's round(n / d) for n >= 0 and d > 0: ties go to the even integer.
PyRound(n, d) ==
    LET q == n \div d
        r == n % d
    IN  IF 2 * r < d THEN q
        ELSE IF 2 * r > d THEN q + 1
        ELSE IF q % 2 = 0 THEN q ELSE q + 1

\* Python's int(n / d) for n >= 0 and d > 0.
PyInt(n, d) == n \div d

\* `v or 1`
Or1(v) == IF v = 0 THEN 1 ELSE v

-----------------------------------------------------------------------------
(* Pixels and images.  An image is a record of its size, its pixels (a     *)
(* function of <<x, y>>, 0-indexed) and err: "" for an image, otherwise    *)
(* the exception that was raised instead of returning one.                  *)

Pix(r, g, b, a) == [r |-> r, g |-> g, b |-> b, a |-> a]
Transparent == Pix(0, 0, 0, 0)      \* what a crop beyond the bounds fills in
White == Pix(255, 255, 255, 255)
Black == Pix(0, 0, 0, 255)

Coords(w, h) == (0 .. w - 1) \X (0 .. h - 1)

Img(w, h, px) == [mode |-> "RGBA", width |-> w, height |-> h, px |-> px, err |-> ""]
Raise(e) ==
    [mode |-> "RGBA", width |-> 0, height |-> 0, px |-> [p \in {} |-> Transparent], err |-> e]

\* PIL Image.resize((w, h), resample=NEAREST): the size must be positive;
\* output pixel x takes the source pixel under its centre.
Resize(im, w, h) ==
    IF w < 1 \/ h < 1 THEN Raise("ValueError")
    ELSE Img(w, h, [p \in Coords(w, h) |->
            im.px[<<((2 * p[1] + 1) * im.width) \div (2 * w),
                    ((2 * p[2] + 1) * im.height) \div (2 * h)>>]])

\* PIL Image.crop(box): pixels beyond the image are transparent.
Crop(im, left, upper, right, lower) ==
    LET w == right - left
        h == lower - upper
    IN  Img(w, h, [p \in Coords(w, h) |->
            LET q == <<p[1] + left, p[2] + upper>>
            IN  IF q \in Coords(im.width, im.height) THEN im.px[q] ELSE Transparent])

-----------------------------------------------------------------------------
(* Image2ASCII.do_resize and get_section_size *)

\* section_width = int(image.width / self.ascii_width) or 1
SectionWidth(c, width) == Or1(PyInt(width, c.ascii_width))

\* section_height = int(section_width * self.ascii_ratio) or 1
SectionHeight(c, section_width) ==
    Or1(PyInt(section_width * c.ascii_ratio[1], c.ascii_ratio[2]))

get_section_size(c, im) ==
    LET section_width == SectionWidth(c, im.width)
    IN  <<section_width, SectionHeight(c, section_width)>>

\* end_width after the max-height adjustment (core.py 327-334)
CappedWidth(c, im) ==
    LET end_width == Min(im.width, c.ascii_width * c.quality)
        rn == c.ascii_ratio[1]
        rd == c.ascii_ratio[2]
    IN  IF c.ascii_max_height = None THEN end_width
        ELSE LET max_height == PyRound(Val(c.ascii_max_height) * c.quality * rn, rd)
             IN  IF im.height * rn * end_width > max_height * im.width * rd
                 THEN PyRound(im.width * max_height * rd, im.height * rn)
                 ELSE end_width

\* Round to the nearest multiple of ascii_width (core.py 336-344)
RoundedWidth(c, end_width) ==
    LET rem == end_width % c.ascii_width
    IN  IF rem = 0 THEN end_width
        ELSE IF end_width > c.ascii_width /\ 4 * rem < c.ascii_width
             THEN end_width - rem
             ELSE end_width + c.ascii_width - rem

\* PadHeight with the odd pixel of the deficit forgotten
PadHeight_even(c, im) ==
    LET section_height == Or1(PyInt(Or1(PyInt(im.width, c.ascii_width)) * c.ascii_ratio[1],
                                    c.ascii_ratio[2]))
        expand_height == section_height - (im.height % section_height)
    IN  IF (im.height % section_height) = 0 THEN im
        ELSE Crop(im, 0, 0 - (expand_height \div 2),
                  im.width, im.height + (expand_height \div 2))

\* Expand the height to a multiple of the section height (core.py 349-363)
PadHeight(c, im) ==
    LET section_height == get_section_size(c, im)[2]
        expand_height == section_height - (im.height % section_height)
    IN  IF (im.height % section_height) = 0 THEN im
        ELSE Crop(im, 0, 0 - ((expand_height \div 2) + (expand_height % 2)),
                  im.width, im.height + (expand_height \div 2))

do_resize(c, im) ==
    IF im.err # "" THEN im
    ELSE IF c.ascii_max_height # None /\ im.width = 0 THEN Raise("ZeroDivisionError")
    ELSE LET end_width == RoundedWidth(c, CappedWidth(c, im))
             scaled == IF im.width # end_width
                       THEN Resize(im, end_width, PyRound(end_width * im.height, im.width))
                       ELSE im
         IN  IF scaled.err # "" THEN scaled ELSE PadHeight(c, scaled)

-----------------------------------------------------------------------------
(* geometry.py: the glyph shapes.  A boolean matrix is a record of its     *)
(* size and of lit, the set of its non-empty points, 1-indexed (x, y).     *)
(* The corners of a polygon are kept in tenths of the unit square.         *)

BoolMatrix(w, h, lit) == [width |-> w, height |-> h, lit |-> lit]

\* Matrix.non_empty_points of a full matrix: every point of the box
BoxPoints(w, h) == (1 .. w) \X (1 .. h)

\* Floats as pairs: the comparisons of n1/d1 with n2/d2 (d1, d2 > 0)
FGt(a, b) == a[1] * b[2] > b[1] * a[2]
FGe(a, b) == a[1] * b[2] >= b[1] * a[2]
FEq(a, b) == a[1] * b[2] = b[1] * a[2]

\* One edge a -> b of the crossing test of Path.contains_points, for the
\* point (tx, ty); all coordinates in tenths.
Crosses(a, b, tx, ty) ==
    LET yflag0 == a[2] >= ty
        yflag1 == b[2] >= ty
    IN  /\ yflag0 # yflag1
        /\ ((b[2] - ty) * (a[1] - b[1]) >= (b[1] - tx) * (a[2] - b[2])) = yflag1

\* self.path = Path([(p[0] * width, p[1] * height) for p in self.points])
PathOf(shape) ==
    [k \in 1 .. Len(shape.points) |->
        <<shape.points[k][1] * shape.width, shape.points[k][2] * shape.height>>]

\* self.path.contains_points([p])[0]: an odd number of crossed edges, the
\* path being closed from its last corner to its first.
contains_point(shape, p) ==
    LET path == PathOf(shape)
        n == Len(path)
        crossed == {k \in 1 .. n :
                      Crosses(path[k], path[(k % n) + 1], 10 * p[1], 10 * p[2])}
    IN  (Cardinality(crossed) % 2) = 1

\* PolygonShape.__init__: box_size, filled_size, unfilled_size
box_size(shape) == shape.width * shape.height
filled_size(shape) ==
    Cardinality({p \in BoxPoints(shape.width, shape.height) : contains_point(shape, p)})
unfilled_size(shape) == box_size(shape) - filled_size(shape)

\* FilledShape.likeness counting the members that are False
FilledLikeness_counts_unlit(shape, boolmatrix) ==
    <<boolmatrix.width * boolmatrix.height - Cardinality(boolmatrix.lit),
      boolmatrix.width * boolmatrix.height>>

\* FilledShape.likeness
FilledLikeness(shape, boolmatrix) ==
    <<Cardinality(boolmatrix.lit), boolmatrix.width * boolmatrix.height>>

\* EmptyShape.likeness counting the members that are True
EmptyLikeness_counts_lit(shape, boolmatrix) ==
    <<Cardinality(boolmatrix.lit), boolmatrix.width * boolmatrix.height>>

\* EmptyShape.likeness
EmptyLikeness(shape, boolmatrix) ==
    <<boolmatrix.width * boolmatrix.height - Cardinality(boolmatrix.lit),
      boolmatrix.width * boolmatrix.height>>

\* PolygonShape.likeness with the filled points outside added, not taken off
PolygonLikeness_adds_outside(shape, boolmatrix) ==
    LET points == boolmatrix.lit
        filled_points_within == Cardinality({p \in points : contains_point(shape, p)})
        filled_points_outside == Cardinality(points) - filled_points_within
    IN  <<filled_points_within + unfilled_size(shape) + filled_points_outside, box_size(shape)>>

\* PolygonShape.likeness counting from filled_size instead of unfilled_size
PolygonLikeness_filled_size(shape, boolmatrix) ==
    LET points == boolmatrix.lit
        filled_points_within == Cardinality({p \in points : contains_point(shape, p)})
        filled_points_outside == Cardinality(points) - filled_points_within
    IN  <<filled_points_within + (filled_size(shape) - filled_points_outside), box_size(shape)>>

\* PolygonShape.likeness
PolygonLikeness(shape, boolmatrix) ==
    LET points == boolmatrix.lit
        filled_points_within == Cardinality({p \in points : contains_point(shape, p)})
        filled_points_outside == Cardinality(points) - filled_points_within
        unfilled_points_outside == unfilled_size(shape) - filled_points_outside
        conforming_points == filled_points_within + unfilled_points_outside
    IN  <<conforming_points, box_size(shape)>>

likeness(shape, boolmatrix) ==
    CASE shape.kind = "empty" -> EmptyLikeness(shape, boolmatrix)
      [] shape.kind = "filled" -> FilledLikeness(shape, boolmatrix)
      [] OTHER -> PolygonLikeness(shape, boolmatrix)

\* The error that shape.likeness(boolmatrix) raises, "" if it returns: the
\* two assertions of PolygonShape.likeness; FilledShape and EmptyShape
\* divide by the matrix's size and look at nothing else
likeness_raises(shape, boolmatrix) ==
    IF shape.kind = "polygon"
    THEN IF shape.width # boolmatrix.width \/ shape.height # boolmatrix.height
         THEN "AssertionError" ELSE ""
    ELSE IF boolmatrix.width * boolmatrix.height = 0 THEN "ZeroDivisionError" ELSE ""

\* A str is a sequence of characters.
EMPTY_CHARACTER == <<" ">>
FILLED_CHARACTER == <<"$">>
\* The fourth polygon's char is a str of two characters in core.py (line
\* 475): U+00C2 and U+00B0, written here "A^" and "deg".
DEGREE_CHARACTERS == <<"A^", "deg">>

Shape(kind, ch, points, w, h) ==
    [kind |-> kind, char |-> ch, points |-> points, width |-> w, height |-> h]

\* Image2ASCII.init_shapes: the catalog, in its fixed order
init_shapes(section_width, section_height) ==
    LET P(ch, points) == Shape("polygon", ch, points, section_width, section_height)
    IN  << Shape("empty", EMPTY_CHARACTER, <<>>, section_width, section_height),
           Shape("filled", FILLED_CHARACTER, <<>>, section_width, section_height),
           P(<<"o">>, << <<0, 5>>, <<10, 5>>, <<10, 10>>, <<0, 10>> >>),
           P(<<"*">>, << <<0, 0>>, <<10, 0>>, <<10, 5>>, <<0, 5>> >>),
           P(<<".">>, << <<0, 7>>, <<10, 7>>, <<10, 10>>, <<0, 10>> >>),
           P(DEGREE_CHARACTERS, << <<0, 0>>, <<10, 0>>, <<10, 3>>, <<0, 3>> >>),
           P(<<"b">>, << <<0, 0>>, <<10, 10>>, <<0, 10>> >>),
           P(<<"d">>, << <<10, 0>>, <<10, 10>>, <<0, 10>> >>),
           P(<<"P">>, << <<0, 0>>, <<10, 0>>, <<0, 10>> >>),
           P(<<"?">>, << <<0, 0>>, <<10, 0>>, <<10, 10>> >>) >>

-----------------------------------------------------------------------------
(* Image2ASCII.get_char *)

\* A max that keeps the last element with the largest key
RECURSIVE PyMax_last(_, _, _)
PyMax_last(chars, i, best) ==
    IF i > Len(chars) THEN best
    ELSE PyMax_last(chars, i + 1, IF FGe(chars[i][2], best[2]) THEN chars[i] ELSE best)

\* max(chars, key=lambda c: c[1]): the first element with the largest key
RECURSIVE PyMax(_, _, _)
PyMax(chars, i, best) ==
    IF i > Len(chars) THEN best
    ELSE PyMax(chars, i + 1, IF FGt(chars[i][2], best[2]) THEN chars[i] ELSE best)

\* The loop over self.shapes from shape i on, chars holding the pairs
\* (char, likeness) of the shapes before it.  The result is the character
\* and the number of likeness calls made.
RECURSIVE ScanShapes(_, _, _, _, _)
ScanShapes(c, shs, nonzero, i, chars) ==
    IF i > Len(shs)
    THEN [char |-> PyMax(chars, 2, chars[1])[1], calls |-> Len(shs)]
    ELSE LET l == likeness(shs[i], nonzero)
         IN  IF FGt(l, c.min_likeness)
             THEN [char |-> shs[i].char, calls |-> i]
             ELSE ScanShapes(c, shs, nonzero, i + 1, Append(chars, <<shs[i].char, l>>))

get_char(c, shs, nonzero) == ScanShapes(c, shs, nonzero, 1, <<>>)

-----------------------------------------------------------------------------
(* Image2ASCII.get_matrix, get_crop_box, do_crop, do_enhance, do_negative, *)
(* prepare_image                                                            *)

(* The perceived brightness is a sum of float64 products.  A float64 x   *)
(* below 512 is kept exactly as the pair <<t, e>> with                     *)
(* x = t / 1000 + e / (1000 * 2^56); every operation rounds its exact      *)
(* result to the nearest float64, ties to even, as the hardware does.      *)

RECURSIVE Pow2(_)
Pow2(n) == IF n = 0 THEN 1 ELSE 2 * Pow2(n - 1)

RECURSIVE Pow2Mod125(_)
Pow2Mod125(n) == IF n = 0 THEN 1 ELSE (2 * Pow2Mod125(n - 1)) % 125

\* floor(log2(x)) of x = <<t, e>> > 0, searched from j upwards (x >= 2^-4)
RECURSIVE Binade(_, _, _)
Binade(t, e, j) ==
    LET next == 1000 * Pow2(j + 4)          \* 8000 * 2^(j + 1)
    IN  IF 8 * t > next \/ (8 * t = next /\ e >= 0) THEN Binade(t, e, j + 1) ELSE j

\* The float64 nearest to the exact value <<t, e>> >= 0
FRound(t, e) ==
    IF t = 0 /\ e = 0 THEN <<0, 0>>
    ELSE LET j == Binade(t, e, 0 - 4)
             ulp == 1000 * Pow2(j + 4)      \* 2^(j - 52) in units of 1 / (1000 * 2^56)
             hi == ((t % 125) * Pow2Mod125(47 - j)) % 125
             r2 == (Pow2(j + 9) * hi + e) % (2 * ulp)
             r == r2 % ulp
         IN  IF 2 * r < ulp THEN <<t, e - r>>
             ELSE IF 2 * r > ulp THEN <<t, e + ulp - r>>
             ELSE IF r2 >= ulp THEN <<t, e + ulp - r>> ELSE <<t, e - r>>

\* The float64 literals 0.299, 0.587 and 0.114
Coef299 == <<299, 0 - 864>>
Coef587 == <<587, 0 - 2432>>
Coef114 == <<114, 296>>

\* v * coef for a channel value v (an integer converted to float64)
FMul(v, coef) == FRound(coef[1] * v, coef[2] * v)
FAdd(x, y) == FRound(x[1] + y[1], x[2] + y[2])

\* x >= 0x80
FGe128(x) == x[1] > 128000 \/ (x[1] = 128000 /\ x[2] >= 0)

\* arr[:, R] * 0.299 + arr[:, G] * 0.587 + arr[:, B] * 0.114
PerceivedBrightness(p) ==
    FAdd(FAdd(FMul(p.r, Coef299), FMul(p.g, Coef587)), FMul(p.b, Coef114))

\* Visible with the invert setting ignored
Visible_ignores_invert(c, p) ==
    IF c.fill_all THEN p.a >= 128
    ELSE p.a >= 128 /\ FGe128(PerceivedBrightness(p))

\* The visibility (Vi) of one pixel (core.py 426-440)
Visible(c, p) ==
    IF c.fill_all THEN p.a >= 128
    ELSE LET perceived_brightness == PerceivedBrightness(p)
         IN  IF ~c.invert
             THEN p.a >= 128 /\ FGe128(perceived_brightness)
             ELSE p.a >= 128 /\ ~FGe128(perceived_brightness)

\* get_matrix with the alpha channel left out of the visibility
get_matrix_without_alpha(c, im) ==
    IF im.width = 0 \/ im.height = 0
    THEN [width |-> 0, height |-> 0, cell |-> [p \in {} |-> <<>>]]
    ELSE [width |-> im.width, height |-> im.height,
          cell |-> [p \in Coords(im.width, im.height) |->
                      [rgba |-> im.px[p], vi |-> Visible(c, [im.px[p] EXCEPT !.a = 255])]]]

\* The matrix of (red, green, blue, alpha, visibility) of an image; the
\* empty matrix for an image without width or height.
get_matrix(c, im) ==
    IF im.width = 0 \/ im.height = 0
    THEN [width |-> 0, height |-> 0, cell |-> [p \in {} |-> <<>>]]
    ELSE [width |-> im.width, height |-> im.height,
          cell |-> [p \in Coords(im.width, im.height) |->
                      [rgba |-> im.px[p], vi |-> Visible(c, im.px[p])]]]

\* The columns and the rows of the matrix that hold a lit pixel:
\* matrix[:, x, Vi].any() and matrix[y, :, Vi].any()
LitCols(m) == {x \in 0 .. m.width - 1 : \E y \in 0 .. m.height - 1 : m.cell[<<x, y>>].vi}
LitRows(m) == {y \in 0 .. m.height - 1 : \E x \in 0 .. m.width - 1 : m.cell[<<x, y>>].vi}

\* `for v in range(lo, hi): if v in hits: break`: the value v is left with
FirstUp(lo, hi, hits) ==
    IF \E v \in lo .. hi - 1 : v \in hits
    THEN CHOOSE v \in lo .. hi - 1 : v \in hits /\ \A u \in lo .. v - 1 : u \notin hits
    ELSE hi - 1

\* That loop without its test: v stays at hi
FirstDown_never_steps(hi, lo, hits) == hi

\* `for v in range(hi, lo, -1): if v - 1 in hits: break`
FirstDown(hi, lo, hits) ==
    IF \E v \in lo + 1 .. hi : v - 1 \in hits
    THEN CHOOSE v \in lo + 1 .. hi : v - 1 \in hits /\ \A u \in v + 1 .. hi : u - 1 \notin hits
    ELSE lo + 1

\* CropBox(left, upper, right, lower) of a matrix with width, height >= 1
get_crop_box(m) ==
    LET cols == LitCols(m)
        rows == LitRows(m)
        left == FirstUp(0, m.width, cols)
        upper == FirstUp(0, m.height, rows)
        right == FirstDown(m.width, left, cols)
        lower == FirstDown(m.height, upper, rows)
    IN  <<left, upper, right, lower>>

\* do_crop: the (image, cropped) pair
do_crop(c, im, m) ==
    LET cropbox == get_crop_box(m)
        Scale(v) == PyRound(v * im.height, m.height)
    IN  IF c.crop /\ cropbox # <<0, 0, m.width, m.height>>
        THEN <<Crop(im, Scale(cropbox[1]), Scale(cropbox[2]),
                        Scale(cropbox[3]), Scale(cropbox[4])), TRUE>>
        ELSE <<im, FALSE>>

\* PIL's conversion of a pixel to mode "L"
Gray(p) == (p.r * 19595 + p.g * 38470 + p.b * 7471 + 32768) \div 65536

RECURSIVE SumGray(_, _)
SumGray(im, ps) ==
    IF ps = {} THEN 0
    ELSE LET p == CHOOSE q \in ps : TRUE
         IN  Gray(im.px[p]) + SumGray(im, ps \ {p})

\* ImageEnhance.X(image).enhance(factor) for the factors 1.0 (the image
\* itself) and 0.0 (the degenerate image, the alpha channel kept).
EnhanceContrast(im) ==
    LET n == im.width * im.height
        mean == (2 * SumGray(im, DOMAIN im.px) + n) \div (2 * n)
    IN  Img(im.width, im.height, [p \in DOMAIN im.px |-> Pix(mean, mean, mean, im.px[p].a)])

EnhanceBrightness(im) ==
    Img(im.width, im.height, [p \in DOMAIN im.px |-> Pix(0, 0, 0, im.px[p].a)])

EnhanceColor(im) ==
    Img(im.width, im.height,
        [p \in DOMAIN im.px |-> Pix(Gray(im.px[p]), Gray(im.px[p]), Gray(im.px[p]), im.px[p].a)])

One == <<1, 1>>
Zero == <<0, 1>>

do_enhance(c, im) ==
    LET im1 == IF c.contrast # One THEN EnhanceContrast(im) ELSE im
        im2 == IF c.brightness # One THEN EnhanceBrightness(im1) ELSE im1
    IN  IF c.color_balance # One THEN EnhanceColor(im2) ELSE im2

do_negative(c, im) ==
    IF c.negative
    THEN Img(im.width, im.height,
             [p \in DOMAIN im.px |->
                Pix(255 - im.px[p].r, 255 - im.px[p].g, 255 - im.px[p].b, im.px[p].a)])
    ELSE im

\* prepare_image without the check that an image was loaded: an image
\* without pixels stands in for the missing one
prepare_image_unchecked(c, self_image) ==
    IF self_image = None THEN Img(0, 0, [p \in {} |-> Transparent])
    ELSE LET im == do_negative(c, do_enhance(c, Val(self_image)))
             resized_image == do_resize(c, im)
         IN  IF resized_image.err # "" THEN resized_image
             ELSE LET cr == do_crop(c, im, get_matrix(c, resized_image))
                  IN  IF cr[2] THEN do_resize(c, cr[1]) ELSE resized_image

\* prepare_image: the image it returns (its matrix is get_matrix of that
\* image), or the error raised on the way.
prepare_image(c, self_image) ==
    IF self_image = None THEN Raise("ValueError")
    ELSE LET im == do_negative(c, do_enhance(c, Val(self_image)))
             resized_image == do_resize(c, im)
         IN  IF resized_image.err # "" THEN resized_image
             ELSE LET cr == do_crop(c, im, get_matrix(c, resized_image))
                  IN  IF cr[2] THEN do_resize(c, cr[1]) ELSE resized_image

-----------------------------------------------------------------------------
(* output.py: Output.  colors maps (x, y) to a colour, an RGB triple.      *)

NewOutput ==
    [rows |-> <<>>, colors |-> [k \in {} |-> <<0, 0, 0>>], row_ptr |-> 0, col_ptr |-> 0,
     err |-> ""]

add_text(o, text) ==
    IF o.err # "" THEN o
    ELSE IF Len(o.rows) = o.row_ptr
    THEN [o EXCEPT !.rows = Append(o.rows, text), !.col_ptr = o.col_ptr + Len(text)]
    ELSE IF o.row_ptr < Len(o.rows)
    THEN [o EXCEPT !.rows[o.row_ptr + 1] = o.rows[o.row_ptr + 1] \o text,
                   !.col_ptr = o.col_ptr + Len(text)]
    ELSE [o EXCEPT !.err = "IndexError"]

add_br(o) ==
    IF o.err # "" THEN o ELSE [o EXCEPT !.row_ptr = o.row_ptr + 1, !.col_ptr = 0]

\* Output.add_color storing the marker one column further
add_color_one_further(o, color) ==
    IF o.err # "" THEN o
    ELSE [o EXCEPT !.colors = [k \in DOMAIN o.colors \cup {<<o.col_ptr + 1, o.row_ptr>>} |->
                                IF k = <<o.col_ptr + 1, o.row_ptr>> THEN color ELSE o.colors[k]]]

add_color(o, color) ==
    IF o.err # "" THEN o
    ELSE [o EXCEPT !.colors = [k \in DOMAIN o.colors \cup {<<o.col_ptr, o.row_ptr>>} |->
                                IF k = <<o.col_ptr, o.row_ptr>> THEN color ELSE o.colors[k]]]

-----------------------------------------------------------------------------
(* color.py: the colour converters *)

\* ANSIColorConverter.colors: the source RGB of the 16 colours, in order
AnsiColors ==
    << <<0, 0, 0>>, <<0, 0, 170>>, <<0, 170, 0>>, <<0, 170, 170>>,
       <<170, 0, 0>>, <<170, 0, 170>>, <<170, 85, 0>>, <<170, 170, 170>>,
       <<255, 255, 85>>, <<85, 85, 85>>, <<85, 85, 255>>, <<85, 255, 85>>,
       <<85, 255, 255>>, <<255, 85, 85>>, <<255, 85, 255>>, <<255, 255, 255>> >>

\* The squared distance of ANSIColorConverter.closest (its square root is
\* taken in the code, which keeps the order)
AnsiDistance(ref, color) ==
    LET rmean == (ref[1] + color[1]) \div 2
        dr == ref[1] - color[1]
        dg == ref[2] - color[2]
        db == ref[3] - color[3]
    IN  (((512 + rmean) * dr * dr) \div 256) + 4 * dg * dg + (((767 - rmean) * db * db) \div 256)

\* converter.closest(color); np.argmin takes the first of the nearest
closest(converter, color) ==
    IF converter = "HTMLFullRGBColorConverter" THEN color
    ELSE LET i == CHOOSE i \in 1 .. Len(AnsiColors) :
                    /\ \A j \in 1 .. Len(AnsiColors) :
                          AnsiDistance(AnsiColors[i], color) <= AnsiDistance(AnsiColors[j], color)
                    /\ \A j \in 1 .. i - 1 :
                          AnsiDistance(AnsiColors[j], color) > AnsiDistance(AnsiColors[i], color)
         IN  AnsiColors[i]

\* A piece of rendered text: a character, a line break, a colour code or a tag
Tok(kind, text, rgb) == [kind |-> kind, text |-> text, rgb |-> rgb]

\* converter.to_representation(color): the ANSI code or the CSS colour; the
\* ANSI converters raise ValueError for a colour that is not one of theirs
Registered(converter, color) ==
    converter = "HTMLFullRGBColorConverter" \/ \E i \in 1 .. Len(AnsiColors) : AnsiColors[i] = color

to_representation(converter, color) ==
    Tok("color", IF converter = "ANSIColorConverter" THEN "ansi" ELSE "css", color)

-----------------------------------------------------------------------------
(* output.py: the formatters.  A formatter is a record of its class and    *)
(* its colour converter; a rendering is the text built so far, whether a   *)
(* span is open (HTMLFormatter.open_span) and the error raised, if any.    *)

\* BaseFormatter.__init__
Formatter(formatter_class, color_converter_class) ==
    [name |-> formatter_class,
     color_converter |->
        IF color_converter_class # None THEN Val(color_converter_class)
        ELSE IF formatter_class = "HTMLFormatter" THEN "HTMLFullRGBColorConverter"
        ELSE "ANSIColorConverter"]

Emit(st, tok) == [st EXCEPT !.text = Append(st.text, tok)]

\* BaseFormatter.render_color and HTMLFormatter.render_color
render_color(f, st, color) ==
    IF ~Registered(f.color_converter, color) THEN [st EXCEPT !.err = "ValueError"]
    ELSE IF f.name = "HTMLFormatter"
    THEN LET st1 == IF st.open_span THEN Emit(st, Tok("tag", "</span>", <<0, 0, 0>>)) ELSE st
             st2 == Emit(st1, Tok("tag", "<span>", <<0, 0, 0>>))
         IN  [Emit(st2, to_representation(f.color_converter, color)) EXCEPT !.open_span = TRUE]
    ELSE Emit(st, to_representation(f.color_converter, color))

\* The loops of BaseFormatter.render, from row `row` and column `col` on
\* (1-indexed; col = 0 stands before the row's line break)
RECURSIVE RenderCells(_, _, _, _, _)
RenderCells(f, o, row, col, st) ==
    IF row > Len(o.rows) \/ st.err # "" THEN st
    ELSE IF col = 0
    THEN RenderCells(f, o, row, 1,
            IF row > 1
            THEN Emit(st, Tok("br", IF f.name = "HTMLFormatter" THEN "<br>" ELSE "\n", <<0, 0, 0>>))
            ELSE st)
    ELSE IF col > Len(o.rows[row]) THEN RenderCells(f, o, row + 1, 0, st)
    ELSE LET key == <<col - 1, row - 1>>
             st1 == IF key \in DOMAIN o.colors THEN render_color(f, st, o.colors[key]) ELSE st
         IN  RenderCells(f, o, row, col + 1,
                IF st1.err # "" THEN st1 ELSE Emit(st1, Tok("char", o.rows[row][col], <<0, 0, 0>>)))

NoText == [text |-> <<>>, open_span |-> FALSE, err |-> ""]

\* HTMLFormatter.render leaving open_span as the last render left it
StartRender_keeps_span(open_span) == [NoText EXCEPT !.open_span = open_span]

\* The first statement of HTMLFormatter.render: self.open_span = False
StartRender(open_span) == [NoText EXCEPT !.open_span = FALSE]

\* formatter.render(output) by a formatter whose open_span is `open_span`:
\* BaseFormatter.render or HTMLFormatter.render
RenderWith(f, open_span, o) ==
    IF f.name = "HTMLFormatter"
    THEN LET st1 == RenderCells(f, o, 1, 0,
                                Emit(StartRender(open_span), Tok("tag", "<pre>", <<0, 0, 0>>)))
             st2 == IF st1.open_span
                    THEN [Emit(st1, Tok("tag", "</span>", <<0, 0, 0>>)) EXCEPT !.open_span = FALSE]
                    ELSE st1
         IN  IF st1.err # "" THEN st1 ELSE Emit(st2, Tok("tag", "</pre>", <<0, 0, 0>>))
    ELSE RenderCells(f, o, 1, 0, NoText)

\* formatter.render(output) by a new formatter, whose open_span is the
\* class attribute False
FormatterRender(f, o) == RenderWith(f, FALSE, o)

-----------------------------------------------------------------------------
(* Image2ASCII.render *)

\* prepare_image storing the enhanced image back into self.image
prepare_image_source_in_place(c, self_image) ==
    IF self_image = None THEN self_image
    ELSE Some(do_negative(c, do_enhance(c, Val(self_image))))

\* self.image after prepare_image: the method works on self.image.copy()
\* and binds what the transforms return to locals (core.py 518-531); crop,
\* resize, enhance and point return new images
prepare_image_source(c, self_image) == self_image

\* The k-th smallest (k >= 1) of the values val[p] for p in ps
KthSmallest(ps, val, k) ==
    CHOOSE v \in {val[p] : p \in ps} :
        /\ Cardinality({p \in ps : val[p] < v}) < k
        /\ Cardinality({p \in ps : val[p] <= v}) >= k

\* np.median of the values, stored into an unsigned integer
Median(ps, val) ==
    LET n == Cardinality(ps)
    IN  IF n % 2 = 1 THEN KthSmallest(ps, val, (n + 1) \div 2)
        ELSE (KthSmallest(ps, val, n \div 2) + KthSmallest(ps, val, (n \div 2) + 1)) \div 2

\* The coordinates of the matrix that a section starting at (start_x,
\* start_y) covers: matrix[start_y:start_y + h, start_x:start_x + w]
SectionCoords(m, size, start_x, start_y) ==
    {q \in DOMAIN m.cell : /\ q[1] >= start_x /\ q[1] < start_x + size[1]
                           /\ q[2] >= start_y /\ q[2] < start_y + size[2]}

\* get_section_color: None, or the converted median colour of the lit pixels
get_section_color(m, coords, converter) ==
    LET colors == {q \in coords : m.cell[q].vi}
        Red == [q \in colors |-> m.cell[q].rgba.r]
        Green == [q \in colors |-> m.cell[q].rgba.g]
        Blue == [q \in colors |-> m.cell[q].rgba.b]
    IN  IF colors = {} THEN None
        ELSE Some(closest(converter,
                          <<Median(colors, Red), Median(colors, Green), Median(colors, Blue)>>))

\* The boolean matrix of a section: its own size and its lit points,
\* 1-indexed from its own corner
SectionMatrix(m, size, start_x, start_y) ==
    LET coords == SectionCoords(m, size, start_x, start_y)
    IN  BoolMatrix(Min(size[1], m.width - start_x), Min(size[2], m.height - start_y),
                   {<<q[1] - start_x + 1, q[2] - start_y + 1>> : q \in {r \in coords : m.cell[r].vi}})

\* SectionChar that scans the catalog for every section
SectionChar_scans(c, shs, nonzero) == get_char(c, shs, nonzero)

\* The character of a section and the number of glyphs whose likeness was
\* computed for it (core.py 562-568): a section without lit pixels takes
\* EMPTY_CHARACTER and is not handed to get_char
SectionChar(c, shs, nonzero) ==
    IF nonzero.lit = {} THEN [char |-> EMPTY_CHARACTER, calls |-> 0]
    ELSE get_char(c, shs, nonzero)

\* RenderSection recording a marker for every section that has a colour
RenderSection_marks_every(c, f, m, shs, size, start_x, start_y, st) ==
    LET coords == SectionCoords(m, size, start_x, start_y)
        new_color == IF c.color THEN get_section_color(m, coords, f.color_converter) ELSE None
        emit == c.color /\ new_color # None
        o1 == IF emit THEN add_color(st.output, Val(new_color)) ELSE st.output
        nonzero == SectionMatrix(m, size, start_x, start_y)
        ch == SectionChar(c, shs, nonzero).char
    IN  [output |-> add_text(o1, ch), last_color |-> IF emit THEN new_color ELSE st.last_color]

\* The body of the inner loop of render for one section (core.py 555-569);
\* st is the output and last_color.  An exception raised by the Output
\* ends the loops below.
RenderSection(c, f, m, shs, size, start_x, start_y, st) ==
    LET coords == SectionCoords(m, size, start_x, start_y)
        new_color == IF c.color THEN get_section_color(m, coords, f.color_converter) ELSE None
        emit == c.color /\ new_color # None /\ (st.last_color = None \/ new_color # st.last_color)
        o1 == IF emit THEN add_color(st.output, Val(new_color)) ELSE st.output
        nonzero == SectionMatrix(m, size, start_x, start_y)
        ch == SectionChar(c, shs, nonzero).char
    IN  [output |-> add_text(o1, ch), last_color |-> IF emit THEN new_color ELSE st.last_color]

RECURSIVE RenderRow(_, _, _, _, _, _, _, _, _)
RenderRow(c, f, im, m, shs, size, start_x, start_y, st) ==
    IF st.output.err # "" THEN st
    ELSE IF start_x >= im.width THEN [st EXCEPT !.output = add_br(st.output)]
    ELSE RenderRow(c, f, im, m, shs, size, start_x + size[1], start_y,
                   RenderSection(c, f, m, shs, size, start_x, start_y, st))

RECURSIVE RenderRows(_, _, _, _, _, _, _, _)
RenderRows(c, f, im, m, shs, size, start_y, st) ==
    IF st.output.err # "" \/ start_y >= im.height THEN st
    ELSE RenderRows(c, f, im, m, shs, size, start_y + size[2],
                    RenderRow(c, f, im, m, shs, size, 0, start_y, st))

\* What one call of render leaves behind: self.output, self.shapes, what
\* the call returned or raised, and whether it ran prepare_image.
RenderOutcome(o, shs, text, err, computed) ==
    [output |-> o, shapes |-> shs, ret |-> [text |-> text, err |-> err], computed |-> computed]

\* render from init_shapes on (core.py 548-571), for the prepared image im
\* and its matrix m
RenderPrepared(c, f, im, m, size, shs) ==
    LET st == RenderRows(c, f, im, m, shs, size, 0, [output |-> NewOutput, last_color |-> None])
        r == FormatterRender(f, st.output)
    IN  RenderOutcome(Some(st.output), shs, r.text, r.err, TRUE)

\* render from prepare_image on (core.py 544-571)
RenderComputed(c, f, self_output, self_shapes, im) ==
    IF im.err # "" THEN RenderOutcome(self_output, self_shapes, <<>>, im.err, TRUE)
    ELSE RenderPrepared(c, f, im, get_matrix(c, im), get_section_size(c, im),
                        init_shapes(get_section_size(c, im)[1], get_section_size(c, im)[2]))

\* render that computes a new Output whether or not one is stored
render_uncached(c, self_image, self_output, self_shapes) ==
    RenderComputed(c, Formatter(c.formatter_class, c.color_converter_class),
                   self_output, self_shapes, prepare_image(c, self_image))

render(c, self_image, self_output, self_shapes) ==
    LET f == Formatter(c.formatter_class, c.color_converter_class)
    IN  IF self_output = None
        THEN RenderComputed(c, f, self_output, self_shapes, prepare_image(c, self_image))
        ELSE LET r == FormatterRender(f, Val(self_output))
             IN  RenderOutcome(self_output, self_shapes, r.text, r.err, FALSE)

-----------------------------------------------------------------------------
(* config.py: Config and its typed values.  A Python object is the pair of   *)
(* its type and its value; floats are exact quotients <<n, d>>.            *)

PyBool(b) == <<"bool", b>>
PyIntObj(i) == <<"int", i>>
PyFloat(q) == <<"float", q>>
PyStr(s) == <<"str", s>>
PyType(c) == <<"type", c>>
PyNone == <<"NoneType", 0>>
PyList == <<"list", 0>>

NaN == <<0, 0>>

\* The outcome of a cast: the value, or the error raised
Cast(v) == [err |-> "", value |-> v]
CastError(e) == [err |-> e, value |-> 0]

\* str.lower() of the strings that are assigned here
Lower(s) ==
    CASE s = "YES" -> "yes"
      [] s = "image2ascii.output.HTMLFormatter" -> "image2ascii.output.htmlformatter"
      [] s = "image2ascii.color.ANSIColorConverter" -> "image2ascii.color.ansicolorconverter"
      [] s = "image2ascii.core.EMPTY_CHARACTER" -> "image2ascii.core.empty_character"
      [] s = "image2ascii.output.NoSuch" -> "image2ascii.output.nosuch"
      [] s = "HTMLFormatter" -> "htmlformatter"
      [] OTHER -> s

\* The strings that int() reads, with the integer they denote
IntLiterals == {<<"12", 12>>, <<" 7 ", 7>>, <<"0", 0>>, <<"1", 1>>}
\* The strings that float() reads and int() does not
FloatLiterals == {<<"1.5", <<3, 2>>>>, <<"nan", NaN>>}

\* int(x) of a float: towards zero
Trunc(q) == IF q[1] >= 0 THEN q[1] \div q[2] ELSE -((-q[1]) \div q[2])

\* BoolValue.cast
BoolValue_cast(x) ==
    IF x[1] = "bool" THEN Cast(x[2])
    ELSE IF x[1] = "int" THEN Cast(x[2] # 0)
    ELSE IF x[1] = "float" THEN Cast(x[2][1] # 0 \/ x[2] = NaN)
    ELSE IF x[1] = "str" /\ Lower(x[2]) \in {"1", "yes", "true", "on"} THEN Cast(TRUE)
    ELSE IF x[1] = "str" /\ Lower(x[2]) \in {"0", "no", "false", "off"} THEN Cast(FALSE)
    ELSE CastError("ValueError")

\* IntValue.cast: int(value)
IntValue_cast(x) ==
    IF x[1] = "bool" THEN Cast(IF x[2] THEN 1 ELSE 0)
    ELSE IF x[1] = "int" THEN Cast(x[2])
    ELSE IF x[1] = "float" THEN IF x[2] = NaN THEN CastError("ValueError") ELSE Cast(Trunc(x[2]))
    ELSE IF x[1] = "str"
    THEN IF \E l \in IntLiterals : l[1] = x[2]
         THEN Cast((CHOOSE l \in IntLiterals : l[1] = x[2])[2])
         ELSE CastError("ValueError")
    ELSE CastError("TypeError")

\* NullableIntValue.cast
NullableIntValue_cast(x) ==
    IF x[1] = "NoneType" THEN Cast(None)
    ELSE LET c == IntValue_cast(x) IN IF c.err # "" THEN c ELSE Cast(Some(c.value))

\* FloatValue.cast: float(value)
FloatValue_cast(x) ==
    IF x[1] = "bool" THEN Cast(IF x[2] THEN <<1, 1>> ELSE <<0, 1>>)
    ELSE IF x[1] = "int" THEN Cast(<<x[2], 1>>)
    ELSE IF x[1] = "float" THEN Cast(x[2])
    ELSE IF x[1] = "str"
    THEN IF \E l \in IntLiterals : l[1] = x[2]
         THEN Cast(<<(CHOOSE l \in IntLiterals : l[1] = x[2])[2], 1>>)
         ELSE IF \E l \in FloatLiterals : l[1] = x[2]
         THEN Cast((CHOOSE l \in FloatLiterals : l[1] = x[2])[2])
         ELSE CastError("ValueError")
    ELSE CastError("TypeError")

\* utils.import_string: the attribute that a dotted path names
import_string(dotted_path) ==
    CASE dotted_path = "image2ascii.output.HTMLFormatter" -> Cast(PyType("HTMLFormatter"))
      [] dotted_path = "image2ascii.color.ANSIColorConverter" -> Cast(PyType("ANSIColorConverter"))
      [] dotted_path = "image2ascii.core.EMPTY_CHARACTER" -> Cast(PyStr(" "))
      [] OTHER -> CastError("ImportError")

\* TypeValue.cast
TypeValue_cast(x) ==
    LET imported == IF x[1] = "str" THEN import_string(x[2]) ELSE Cast(x)
    IN  IF imported.err # "" THEN imported
        ELSE IF imported.value[1] # "type" THEN CastError("ValueError")
        ELSE Cast(imported.value[2])

\* NullableTypeValue.cast
NullableTypeValue_cast(x) ==
    IF x[1] = "NoneType" THEN Cast(None)
    ELSE LET c == TypeValue_cast(x) IN IF c.err # "" THEN c ELSE Cast(Some(c.value))

\* Config.__init__: the fields with the class of their value and, for a
\* type field, the class it was declared with
ConfigFields ==
    [color |-> "BoolValue", crop |-> "BoolValue", debug |-> "BoolValue",
     fill_all |-> "BoolValue", full_rgb |-> "BoolValue", invert |-> "BoolValue",
     negative |-> "BoolValue", color_converter_class |-> "NullableTypeValue",
     formatter_class |-> "TypeValue", brightness |-> "FloatValue",
     color_balance |-> "FloatValue", contrast |-> "FloatValue",
     max_height |-> "NullableIntValue", min_likeness |-> "FloatValue",
     quality |-> "IntValue", ratio |-> "FloatValue", width |-> "IntValue",
     max_original_size |-> "IntValue"]

DeclaredType == [color_converter_class |-> "BaseColorConverter", formatter_class |-> "BaseFormatter"]

NewConfig ==
    [color |-> FALSE, crop |-> FALSE, debug |-> FALSE, fill_all |-> FALSE, full_rgb |-> FALSE,
     invert |-> FALSE, negative |-> FALSE, color_converter_class |-> None,
     formatter_class |-> "ANSIFormatter", brightness |-> <<1, 1>>, color_balance |-> <<1, 1>>,
     contrast |-> <<1, 1>>, max_height |-> None, min_likeness |-> <<9, 10>>, quality |-> 5,
     ratio |-> <<2, 1>>, width |-> 80, max_original_size |-> 2000]

\* The cast of the field's class
cast(name, x) ==
    CASE ConfigFields[name] = "BoolValue" -> BoolValue_cast(x)
      [] ConfigFields[name] = "IntValue" -> IntValue_cast(x)
      [] ConfigFields[name] = "NullableIntValue" -> NullableIntValue_cast(x)
      [] ConfigFields[name] = "FloatValue" -> FloatValue_cast(x)
      [] ConfigFields[name] = "TypeValue" -> TypeValue_cast(x)
      [] OTHER -> NullableTypeValue_cast(x)

\* `value != self.value`; a NaN differs from every float, itself included
Differs(name, a, b) == a # b \/ (ConfigFields[name] = "FloatValue" /\ (a = NaN \/ b = NaN))

\* BaseConfigValue.set_value: the fields after it, whether the value
\* changed, and the error of the cast
set_value(fields, name, x) ==
    LET c == cast(name, x)
    IN  IF c.err # "" THEN [fields |-> fields, changed |-> FALSE, err |-> c.err]
        ELSE IF Differs(name, c.value, fields[name])
        THEN [fields |-> [fields EXCEPT ![name] = c.value], changed |-> TRUE, err |-> ""]
        ELSE [fields |-> fields, changed |-> FALSE, err |-> ""]

\* Config.__setattr__ for the name of a field, with one listener added:
\* config_changed(name, value) is called when set_value reports a change
Config_setattr(fields, notes, name, x) ==
    LET r == set_value(fields, name, x)
    IN  [fields |-> r.fields, err |-> r.err,
         notes |-> IF r.changed THEN Append(notes, name) ELSE notes]

\* One pass of the loop of Config.from_file.  A row is what re.split makes
\* of it: <<key, value>>, or one text for a row without "=", of which the
\* unpacking raises ValueError.  A key that is no field (and has no leading
\* underscore) becomes a plain attribute.  ValueError is caught; the result
\* is the fields and the error that leaves the loop, if any.
ReadRow(fields, row) ==
    IF Len(row) # 2 THEN [fields |-> fields, err |-> ""]
    ELSE IF row[1] \notin DOMAIN ConfigFields THEN [fields |-> fields, err |-> ""]
    ELSE LET r == Config_setattr(fields, <<>>, row[1], PyStr(row[2]))
         IN  IF r.err = "ValueError" THEN [fields |-> fields, err |-> ""]
             ELSE [fields |-> r.fields, err |-> r.err]

RECURSIVE ReadRows(_, _)
ReadRows(fields, rows) ==
    IF rows = <<>> THEN [fields |-> fields, err |-> ""]
    ELSE LET r == ReadRow(fields, Head(rows))
         IN  IF r.err # "" THEN r ELSE ReadRows(r.fields, Tail(rows))

\* Config.from_file(file) for a file that can be read: the new Config's
\* fields, or the error raised
Config_from_file(rows) == ReadRows(NewConfig, rows)

-----------------------------------------------------------------------------
(* Image2ASCII: the setters, the settings methods and load *)

\* reset that leaves the stored output in place
reset_keeps(st) == st

\* Image2ASCII.reset; st is the pair of the settings and self.output
reset(st) == [st EXCEPT !.output = None]

\* A property setter without its test: `self._x = value; self.reset()`
SetAttr_always_resets(st, field, value) ==
    reset([st EXCEPT !.cfg = [st.cfg EXCEPT ![field] = value]])

\* A property setter: `if value != self._x: self._x = value; self.reset()`
SetAttr(st, field, value) ==
    IF value # st.cfg[field]
    THEN reset([st EXCEPT !.cfg = [st.cfg EXCEPT ![field] = value]])
    ELSE st

\* One line of a settings method: `if x is not None: self.x = x`
SetIfGiven(st, field, arg) == IF arg # None THEN SetAttr(st, field, Val(arg)) ELSE st

color_settings(st, color, invert, negative, fill_all) ==
    SetIfGiven(SetIfGiven(SetIfGiven(SetIfGiven(st, "color", color),
        "invert", invert), "negative", negative), "fill_all", fill_all)

enhancement_settings(st, contrast, brightness, color_balance) ==
    SetIfGiven(SetIfGiven(SetIfGiven(st, "contrast", contrast),
        "brightness", brightness), "color_balance", color_balance)

quality_settings(st, quality, min_likeness) ==
    SetIfGiven(SetIfGiven(st, "quality", quality), "min_likeness", min_likeness)

size_settings(st, ascii_max_height, ascii_width, ascii_ratio, crop) ==
    SetIfGiven(SetIfGiven(SetIfGiven(SetIfGiven(st, "ascii_max_height", ascii_max_height),
        "ascii_width", ascii_width), "ascii_ratio", ascii_ratio), "crop", crop)

MAX_ORIGINAL_SIZE == 2000

\* load without the downsizing of a large original
Loaded_keeps_size(f) == [f EXCEPT !.mode = "RGBA"]

\* load: the image that is stored for a decoded file (core.py 485-492)
Loaded(f) ==
    LET rgba == [f EXCEPT !.mode = "RGBA"]
        longest == Max(rgba.width, rgba.height)
    IN  IF rgba.width > MAX_ORIGINAL_SIZE \/ rgba.height > MAX_ORIGINAL_SIZE
        THEN Resize(rgba, PyRound(rgba.width * MAX_ORIGINAL_SIZE, longest),
                          PyRound(rgba.height * MAX_ORIGINAL_SIZE, longest))
        ELSE rgba

\* load: `if image != self.image: self.image = image; self.reset()`; an
\* error raised by the resize leaves the converter as it was
load(st, self_image, f) ==
    IF Loaded(f).err # "" THEN [image |-> self_image, st |-> st, err |-> Loaded(f).err]
    ELSE IF Some(Loaded(f)) # self_image
    THEN [image |-> Some(Loaded(f)), st |-> reset(st), err |-> ""]
    ELSE [image |-> self_image, st |-> st, err |-> ""]

-----------------------------------------------------------------------------
(* The settings *)

Ratios == {<<1, 2>>, <<1, 1>>, <<3, 2>>, <<2, 1>>}
MinLikenesses == {<<1, 2>>, <<9, 10>>, <<1, 1>>}
DEFAULT_MIN_LIKENESS == <<9, 10>>
DEFAULT_ASCII_RATIO == <<2, 1>>

\* The class attributes of Image2ASCII (core.py 23-37), but for the width
\* and the quality, which start at the smallest value of their range.
DefaultCfg ==
    [ascii_max_height |-> None, ascii_ratio |-> DEFAULT_ASCII_RATIO, ascii_width |-> 1,
     brightness |-> One, color |-> FALSE, color_balance |-> One,
     color_converter_class |-> None, contrast |-> One, crop |-> FALSE,
     fill_all |-> FALSE, formatter_class |-> "ANSIFormatter", invert |-> FALSE,
     min_likeness |-> DEFAULT_MIN_LIKENESS, negative |-> FALSE, quality |-> 1]

\* Images with one rectangle of opaque white pixels on a transparent ground
RectImages(w, h) ==
    {Img(w, h, [p \in Coords(w, h) |->
                  IF p[1] >= l /\ p[1] < r /\ p[2] >= u /\ p[2] < b
                  THEN White ELSE Transparent]) :
        <<l, r, u, b>> \in {t \in (0 .. w) \X (0 .. w) \X (0 .. h) \X (0 .. h) :
                               \/ t[1] < t[2] /\ t[3] < t[4]
                               \/ t = <<0, 0, 0, 0>>}}

NoLk == [glyph |-> 0, value |-> Zero]

\* What a call returned: its text, or the error it raised
NoReturn == [text |-> <<>>, err |-> ""]

ConverterIdle ==
    /\ output = None /\ ret = NoReturn /\ last_text = None /\ recomputed = FALSE
    /\ op = "init" /\ changes = 0 /\ dropped = "" /\ failed = FALSE /\ file = None
    /\ config = NewConfig /\ notified = <<>> /\ attempt = None
    /\ formatter = None /\ passed = None /\ crop_box = None
    /\ shelf = <<>> /\ now = 0 /\ removed = {}

-----------------------------------------------------------------------------
(* The converter: an Image2ASCII object and the calls made on it.          *)
(*   output      self.output, None or an Output                            *)
(*   ret         what the last call returned or raised                     *)
(*   op          the kind of the last call: init, set, load or render      *)
(*   recomputed  the last call ran prepare_image                           *)
(*   last_text   the text of the last successful render, None once a       *)
(*               setting or the image has changed since                    *)
(*   changes     the number of setter and settings calls                   *)
(*   dropped     the kind of call that last reset a stored output          *)
(*   failed      a render has raised for want of an image                  *)

\* The decoded files: an opaque white square, a transparent square with one
\* white pixel, a two-pixel image of another mode, and a transparent image
\* of 2 by 4 pixels whose top row is white
Files ==
    {Img(2, 2, [p \in Coords(2, 2) |-> White]),
     Img(2, 2, [p \in Coords(2, 2) |-> IF p = <<1, 1>> THEN White ELSE Transparent]),
     [Img(2, 1, [p \in Coords(2, 1) |-> IF p[1] = 0 THEN White ELSE Black]) EXCEPT !.mode = "RGB"],
     Img(2, 4, [p \in Coords(2, 4) |-> IF p[2] = 0 THEN White ELSE Transparent])}

Init ==
    /\ image = None
    /\ cfg = DefaultCfg
    /\ shapes = <<>>
    /\ resized = None /\ resized2 = None /\ prepared = None
    /\ section = BoolMatrix(0, 0, {}) /\ lk = NoLk /\ char = None /\ matrix = None
    /\ pc = "start"
    /\ ConverterIdle

Self == [cfg |-> cfg, output |-> output]

\* What a setter or a settings method does to the converter: left is what
\* it leaves
Changed(left) ==
    /\ changes < MaxChanges
    /\ \E st \in {left} :
        /\ changes' = changes + 1
        /\ cfg' = st.cfg
        /\ output' = st.output
        /\ op' = "set"
        /\ ret' = NoReturn
        /\ recomputed' = FALSE
        /\ last_text' = IF st.cfg # cfg THEN None ELSE last_text
        /\ dropped' = IF output # None /\ st.output = None THEN "setter" ELSE dropped
        /\ UNCHANGED <<image, shapes, failed, file, pure, conf, formatter, crop_box, store>>

\* A setter or a settings method is called
Change(left) == Changed(left) /\ passed' = None

Heights == {None, Some(1)}
Widths == {1, 2}
SomeRatios == {<<2, 1>>, <<1, 1>>}
Factors == {One, Zero}
Converters == {None, Some("HTMLFullRGBColorConverter")}
Formatters == {"ANSIFormatter", "HTMLFormatter"}
SomeLikenesses == {<<9, 10>>, <<1, 2>>}
Qualities == {1, 2}
Given(S) == {None} \cup {Some(v) : v \in S}
\* self.field = v
Set(field, v) == Change(SetAttr(Self, field, v))

SetAsciiMaxHeight == \E v \in Heights : Set("ascii_max_height", v)
SetAsciiRatio == \E v \in SomeRatios : Set("ascii_ratio", v)
SetAsciiWidth == \E v \in Widths : Set("ascii_width", v)
SetBrightness == \E v \in Factors : Set("brightness", v)
SetColor == \E v \in BOOLEAN : Set("color", v)
SetColorBalance == \E v \in Factors : Set("color_balance", v)
SetColorConverterClass == \E v \in Converters : Set("color_converter_class", v)
SetContrast == \E v \in Factors : Set("contrast", v)
SetCrop == \E v \in BOOLEAN : Set("crop", v)
SetFillAll == \E v \in BOOLEAN : Set("fill_all", v)
SetFormatterClass == \E v \in Formatters : Set("formatter_class", v)
SetInvert == \E v \in BOOLEAN : Set("invert", v)
SetMinLikeness == \E v \in SomeLikenesses : Set("min_likeness", v)
SetNegative == \E v \in BOOLEAN : Set("negative", v)
SetQuality == \E v \in Qualities : Set("quality", v)

ColorSettings ==
    \E co \in Given(BOOLEAN), inv \in Given(BOOLEAN), ne \in Given(BOOLEAN), fa \in Given(BOOLEAN) :
        Change(color_settings(Self, co, inv, ne, fa))

EnhancementSettings ==
    \E co \in Given(Factors), br \in Given(Factors), cb \in Given(Factors) :
        Change(enhancement_settings(Self, co, br, cb))

QualitySettings ==
    \E q \in Given(Qualities), ml \in Given(SomeLikenesses) :
        Change(quality_settings(Self, q, ml))

SizeSettings ==
    \E mh \in Given(Heights \ {None}), aw \in Given(Widths), ra \in Given(SomeRatios), cr \in Given(BOOLEAN) :
        Change(size_settings(Self, mh, aw, ra, cr))

LoadFrom(files) ==
    \E f \in files :
        \E l \in {load(Self, image, f)} :
            /\ image' = l.image
            /\ cfg' = l.st.cfg
            /\ output' = l.st.output
            /\ file' = Some(f)
            /\ op' = "load"
            /\ ret' = [text |-> <<>>, err |-> l.err]
            /\ recomputed' = FALSE
            /\ last_text' = IF l.image # image THEN None ELSE last_text
            /\ dropped' = IF output # None /\ l.st.output = None THEN "load" ELSE dropped
            /\ passed' = None
            /\ UNCHANGED <<shapes, changes, failed, pure, conf, formatter, crop_box, store>>

Load == LoadFrom(Files)

Render ==
    \E r \in {render(cfg, image, output, shapes)} :
        /\ output' = r.output
        /\ shapes' = r.shapes
        /\ ret' = r.ret
        /\ recomputed' = r.computed
        /\ op' = "render"
        /\ last_text' = IF r.ret.err = "" THEN Some(r.ret.text) ELSE last_text
        /\ failed' = (failed \/ (image = None /\ r.ret.err # ""))
        /\ image' = IF r.computed THEN prepare_image_source(cfg, image) ELSE image
        /\ passed' = None
        /\ UNCHANGED <<cfg, changes, dropped, file, pure, conf, formatter, crop_box, store>>

Next ==
    \/ SetAsciiMaxHeight \/ SetAsciiRatio \/ SetAsciiWidth \/ SetBrightness \/ SetColor
    \/ SetColorBalance \/ SetColorConverterClass \/ SetContrast \/ SetCrop \/ SetFillAll
    \/ SetFormatterClass \/ SetInvert \/ SetMinLikeness \/ SetNegative \/ SetQuality
    \/ ColorSettings \/ EnhancementSettings \/ QualitySettings \/ SizeSettings
    \/ Load \/ Render

Spec == Init /\ [][Next]_vars

-----------------------------------------------------------------------------
(* The calls with their arguments: a converter that loads a white square,  *)
(* renders, and has its setters and settings methods called; passed holds  *)
(* the arguments of the last such call, None for a parameter that is None   *)

SetterCalls ==
    ({"ascii_max_height"} \X Heights) \cup ({"ascii_ratio"} \X SomeRatios)
        \cup ({"ascii_width"} \X Widths) \cup ({"brightness"} \X Factors)
        \cup ({"color"} \X BOOLEAN) \cup ({"color_balance"} \X Factors)
        \cup ({"color_converter_class"} \X Converters) \cup ({"contrast"} \X Factors)
        \cup ({"crop"} \X BOOLEAN) \cup ({"fill_all"} \X BOOLEAN)
        \cup ({"formatter_class"} \X Formatters) \cup ({"invert"} \X BOOLEAN)
        \cup ({"min_likeness"} \X SomeLikenesses) \cup ({"negative"} \X BOOLEAN)
        \cup ({"quality"} \X Qualities)

\* self.field = v, for every setter
SetterCall ==
    \E call \in SetterCalls :
        /\ Changed(SetAttr(Self, call[1], call[2]))
        /\ passed' = Some([f \in {call[1]} |-> Some(call[2])])

\* One of the four settings methods with its keyword arguments
SettingsCall ==
    \/ \E co \in Given(BOOLEAN), inv \in Given(BOOLEAN), ne \in Given(BOOLEAN),
          fa \in Given(BOOLEAN) :
          /\ Changed(color_settings(Self, co, inv, ne, fa))
          /\ passed' = Some([color |-> co, invert |-> inv, negative |-> ne, fill_all |-> fa])
    \/ \E co \in Given(Factors), br \in Given(Factors), cb \in Given(Factors) :
          /\ Changed(enhancement_settings(Self, co, br, cb))
          /\ passed' = Some([contrast |-> co, brightness |-> br, color_balance |-> cb])
    \/ \E q \in Given(Qualities), ml \in Given(SomeLikenesses) :
          /\ Changed(quality_settings(Self, q, ml))
          /\ passed' = Some([quality |-> q, min_likeness |-> ml])
    \/ \E mh \in Given(Heights \ {None}), aw \in Given(Widths), ra \in Given(SomeRatios),
          cr \in Given(BOOLEAN) :
          /\ Changed(size_settings(Self, mh, aw, ra, cr))
          /\ passed' = Some([ascii_max_height |-> mh, ascii_width |-> aw, ascii_ratio |-> ra,
                             crop |-> cr])

LoadSquare == LoadFrom({Img(2, 2, [p \in Coords(2, 2) |-> White])})

NextSet == SetterCall \/ SettingsCall \/ LoadSquare \/ Render

SpecSet == Init /\ [][NextSet]_vars

-----------------------------------------------------------------------------
(* The planner on its own: do_resize, do_resize of its own output, and      *)
(* prepare_image, for every image size and every size setting               *)

InitResize ==
    /\ \E w \in 1 .. MaxDim, h \in 1 .. MaxDim : image \in {Some(i) : i \in RectImages(w, h)}
    /\ \E aw \in 1 .. MaxWidth, q \in 1 .. MaxQuality, ra \in Ratios,
          mh \in {None} \cup {Some(n) : n \in 1 .. MaxRows}, cr \in BOOLEAN :
          cfg = [DefaultCfg EXCEPT !.ascii_width = aw, !.quality = q, !.ascii_ratio = ra,
                                   !.ascii_max_height = mh, !.crop = cr]
    /\ shapes = <<>>
    /\ resized = None /\ resized2 = None /\ prepared = None
    /\ section = BoolMatrix(0, 0, {}) /\ lk = NoLk /\ char = None /\ matrix = None
    /\ pc = "start"
    /\ ConverterIdle

DoResize ==
    /\ pc = "start"
    /\ resized' = Some(do_resize(cfg, Val(image)))
    /\ pc' = "resized"
    /\ UNCHANGED <<image, cfg, shapes, resized2, prepared, section, lk, char, matrix, conv>>

DoResizeAgain ==
    /\ pc = "resized"
    /\ Val(resized).err = ""
    /\ resized2' = Some(do_resize(cfg, Val(resized)))
    /\ pc' = "again"
    /\ UNCHANGED <<image, cfg, shapes, resized, prepared, section, lk, char, matrix, conv>>

PrepareImage ==
    /\ pc = "start"
    /\ prepared' = Some(prepare_image(cfg, image))
    /\ pc' = "prepared"
    /\ UNCHANGED <<image, cfg, shapes, resized, resized2, section, lk, char, matrix, conv>>

NextResize == DoResize \/ DoResizeAgain \/ PrepareImage

SpecResize == InitResize /\ [][NextResize]_vars

-----------------------------------------------------------------------------
(* The glyphs on their own: init_shapes for a section size, the likeness   *)
(* of each glyph and get_char, for every boolean matrix of that size        *)

SectionSizes == {s \in (1 .. MaxArea) \X (1 .. MaxArea) : s[1] * s[2] <= MaxArea}

InitShape ==
    /\ image = None
    /\ \E ml \in MinLikenesses : cfg = [DefaultCfg EXCEPT !.min_likeness = ml]
    /\ shapes = <<>>
    /\ resized = None /\ resized2 = None /\ prepared = None
    /\ \E s \in SectionSizes : section \in {BoolMatrix(s[1], s[2], lit) :
                                                lit \in SUBSET BoxPoints(s[1], s[2])}
    /\ lk = NoLk /\ char = None /\ matrix = None
    /\ pc = "start"
    /\ ConverterIdle

InitShapes ==
    /\ pc = "start"
    /\ shapes' = init_shapes(section.width, section.height)
    /\ pc' = "shapes"
    /\ UNCHANGED <<image, cfg, resized, resized2, prepared, section, lk, char, matrix, conv>>

Likeness ==
    /\ pc = "shapes"
    /\ \E i \in 1 .. Len(shapes) : lk' = [glyph |-> i, value |-> likeness(shapes[i], section)]
    /\ pc' = "likeness"
    /\ UNCHANGED <<image, cfg, shapes, resized, resized2, prepared, section, char, matrix, conv>>

GetChar ==
    /\ pc = "shapes"
    /\ char' = Some(get_char(cfg, shapes, section))
    /\ pc' = "char"
    /\ UNCHANGED <<image, cfg, shapes, resized, resized2, prepared, section, lk, matrix, conv>>

\* The choice that render makes for a section (core.py 562-568)
SelectChar ==
    /\ pc = "shapes"
    /\ char' = Some(SectionChar(cfg, shapes, section))
    /\ pc' = "selected"
    /\ UNCHANGED <<image, cfg, shapes, resized, resized2, prepared, section, lk, matrix, conv>>

\* Sizes for which a catalog is built that is then asked about a matrix of
\* another size
OtherSizes == {<<1, 1>>, <<2, 2>>, <<3, 1>>}

\* init_shapes for a size that is not the section's
InitShapesOther ==
    /\ pc = "start"
    /\ \E s \in OtherSizes :
          /\ s # <<section.width, section.height>>
          /\ shapes' = init_shapes(s[1], s[2])
    /\ pc' = "mismatched"
    /\ UNCHANGED <<image, cfg, resized, resized2, prepared, section, lk, char, matrix, conv>>

\* shape.likeness(section) of a glyph of that catalog: it raises, or it
\* returns a score
LikenessOther ==
    /\ pc = "mismatched"
    /\ \E i \in 1 .. Len(shapes) :
          IF likeness_raises(shapes[i], section) # ""
          THEN lk' = [glyph |-> i, value |-> Zero] /\ pc' = "raised"
          ELSE lk' = [glyph |-> i, value |-> likeness(shapes[i], section)] /\ pc' = "scored"
    /\ UNCHANGED <<image, cfg, shapes, resized, resized2, prepared, section, char, matrix, conv>>

NextShape == InitShapes \/ Likeness \/ GetChar \/ SelectChar \/ InitShapesOther \/ LikenessOther

SpecShape == InitShape /\ [][NextShape]_vars

-----------------------------------------------------------------------------
(* The sampler on its own: get_matrix of small images whose pixels take    *)
(* the channel values around the thresholds                                 *)

Channels == {0, 127, 128, 255}
SamplePixels == {Pix(r, g, b, a) : r \in Channels, g \in Channels, b \in Channels, a \in Channels}
Gray128 == Pix(128, 128, 128, 255)
FewPixels == {Transparent, White, Black, Gray128}

MatrixImages ==
    {Img(1, 1, [q \in Coords(1, 1) |-> p]) : p \in SamplePixels}
    \cup {Img(2, 1, [q \in Coords(2, 1) |-> IF q[1] = 0 THEN p1 ELSE p2]) :
              p1 \in FewPixels, p2 \in FewPixels}
    \cup {Img(1, 2, [q \in Coords(1, 2) |-> IF q[2] = 0 THEN p1 ELSE p2]) :
              p1 \in FewPixels, p2 \in FewPixels}

InitMatrix ==
    /\ image \in {Some(i) : i \in MatrixImages}
    /\ \E fa \in BOOLEAN, inv \in BOOLEAN :
          cfg = [DefaultCfg EXCEPT !.fill_all = fa, !.invert = inv]
    /\ shapes = <<>>
    /\ resized = None /\ resized2 = None /\ prepared = None
    /\ section = BoolMatrix(0, 0, {}) /\ lk = NoLk /\ char = None /\ matrix = None
    /\ pc = "start"
    /\ ConverterIdle

GetMatrix ==
    /\ pc = "start"
    /\ matrix' = Some(get_matrix(cfg, Val(image)))
    /\ pc' = "matrix"
    /\ UNCHANGED <<image, cfg, shapes, resized, resized2, prepared, section, lk, char, conv>>

NextMatrix == GetMatrix

SpecMatrix == InitMatrix /\ [][NextMatrix]_vars

-----------------------------------------------------------------------------
(* get_crop_box on its own: get_matrix and then get_crop_box of every      *)
(* image of up to MaxBox by MaxBox pixels, MaxBoxArea pixels at most,      *)
(* that are opaque white or transparent                                    *)

MaxBox == 3

MaxBoxArea == 9

InitCrop ==
    /\ \E w \in 1 .. MaxBox, h \in 1 .. MaxBox :
          /\ w * h <= MaxBoxArea
          /\ \E px \in [Coords(w, h) -> {White, Transparent}] :
                image = Some(Img(w, h, px))
    /\ cfg = DefaultCfg
    /\ shapes = <<>>
    /\ resized = None /\ resized2 = None /\ prepared = None
    /\ section = BoolMatrix(0, 0, {}) /\ lk = NoLk /\ char = None /\ matrix = None
    /\ pc = "start"
    /\ ConverterIdle

GetCropBox ==
    /\ pc = "matrix"
    /\ crop_box' = Some(get_crop_box(Val(matrix)))
    /\ pc' = "box"
    /\ UNCHANGED <<image, cfg, shapes, resized, resized2, prepared, section, lk, char, matrix,
                   output, ret, last_text, recomputed, op, changes, dropped, failed, file, conf,
                   formatter, passed, store>>

NextCrop == GetMatrix \/ GetCropBox

SpecCrop == InitCrop /\ [][NextCrop]_vars

-----------------------------------------------------------------------------
(* The renderer on its own: one render of a converter that holds a small   *)
(* image of a few colours, its width the ascii_width, under every          *)
(* combination of the settings that reach the loop of render               *)

Yellow == Pix(255, 255, 0, 255)
RenderPixels == {Transparent, White, Yellow, Black}
\* The images: a row of three pixels of any of the four colours, or a
\* square of four pixels that are transparent, white or yellow
SquarePixels == {Transparent, White, Yellow}
RenderImages ==
    {Img(3, 1, px) : px \in [Coords(3, 1) -> RenderPixels]}
        \cup {Img(2, 2, px) : px \in [Coords(2, 2) -> SquarePixels]}

InitRender ==
    /\ image \in {Some(i) : i \in RenderImages}
    /\ \E co \in BOOLEAN, fa \in BOOLEAN, inv \in BOOLEAN, cr \in BOOLEAN, ne \in BOOLEAN,
          ra \in SomeRatios, fo \in Formatters :
          cfg = [DefaultCfg EXCEPT !.color = co, !.fill_all = fa, !.invert = inv, !.crop = cr,
                                   !.negative = ne, !.ascii_ratio = ra, !.formatter_class = fo,
                                   !.ascii_width = Val(image).width]
    /\ shapes = <<>>
    /\ resized = None /\ resized2 = None /\ prepared = None
    /\ section = BoolMatrix(0, 0, {}) /\ lk = NoLk /\ char = None /\ matrix = None
    /\ pc = "start"
    /\ ConverterIdle

NextRender == Render

SpecRender == InitRender /\ [][NextRender]_vars

-----------------------------------------------------------------------------
(* Properties of get_char and of the glyphs (under SpecShape)              *)

LikenessOf(i) == likeness(shapes[i], section)
Exceeding == {i \in 1 .. Len(shapes) : FGt(LikenessOf(i), cfg.min_likeness)}
Inside(shape) == {p \in BoxPoints(shape.width, shape.height) : contains_point(shape, p)}

C5_LikenessBounds ==
    pc = "likeness" =>
        /\ lk.value[2] > 0
        /\ lk.value[1] >= 0
        /\ lk.value[1] <= lk.value[2]

\* a polygon glyph scored a section that is lit both inside and outside it
C5_Witness ==
    /\ pc = "likeness"
    /\ shapes[lk.glyph].kind = "polygon"
    /\ section.lit \cap Inside(shapes[lk.glyph]) # {}
    /\ section.lit \ Inside(shapes[lk.glyph]) # {}
    /\ lk.value[1] > 0 /\ lk.value[1] < lk.value[2]

\* C6: the likeness of a polygon glyph is the fraction of the points of
\* the box whose lit status agrees with their membership of the polygon;
\* without lit points it is unfilled_size / box_size; it is 1.0 exactly
\* when the lit points are the points the polygon contains.
C6_PolygonAgreement ==
    (pc = "likeness" /\ shapes[lk.glyph].kind = "polygon") =>
        LET shape == shapes[lk.glyph]
            box == BoxPoints(shape.width, shape.height)
            agree == {p \in box : (p \in section.lit) = (p \in Inside(shape))}
        IN  /\ FEq(lk.value, <<Cardinality(agree), Cardinality(box)>>)
            /\ section.lit = {} =>
                  FEq(lk.value, <<Cardinality(box \ Inside(shape)), Cardinality(box)>>)
            /\ FEq(lk.value, One) <=> (section.lit = Inside(shape))

\* a polygon that holds some but not all points of its box scored the
\* section lit exactly on those points
C6_Witness ==
    /\ pc = "likeness"
    /\ shapes[lk.glyph].kind = "polygon"
    /\ section.lit = Inside(shapes[lk.glyph])
    /\ section.lit # {}
    /\ section.lit # BoxPoints(section.width, section.height)
    /\ FEq(lk.value, One)

\* C7: a section without lit pixels scores exactly 1.0 against the Empty
\* glyph, a section with every pixel lit exactly 1.0 against the Filled one.
C7_ExactMatches ==
    pc = "likeness" =>
        /\ (shapes[lk.glyph].kind = "empty" /\ section.lit = {}) =>
                (lk.value[1] = lk.value[2] /\ lk.value[2] > 0)
        /\ (shapes[lk.glyph].kind = "filled"
                /\ section.lit = BoxPoints(section.width, section.height)) =>
                (lk.value[1] = lk.value[2] /\ lk.value[2] > 0)

\* the Empty glyph scored an unlit section of several pixels
C7_Witness ==
    /\ pc = "likeness"
    /\ shapes[lk.glyph].kind = "empty"
    /\ section.lit = {}
    /\ section.width >= 2 /\ section.height >= 2
    /\ lk.value[1] = lk.value[2]

-----------------------------------------------------------------------------
(* Properties of the planner (under SpecResize)                             *)

Covered(im) ==
    LET size == get_section_size(cfg, im)
    IN  (im.width % size[1]) = 0 /\ (im.height % size[2]) = 0

\* C8: the image do_resize returns, and the image prepare_image returns
\* (cropped or not), has a width that is a multiple of the section width
\* and a height that is a multiple of the section height of
\* get_section_size.
C8_Coverage ==
    /\ (pc = "resized" /\ Val(resized).err = "") => Covered(Val(resized))
    /\ (pc = "prepared" /\ Val(prepared).err = "") => Covered(Val(prepared))

\* prepare_image cropped, resized the crop and returned an image of
\* several rows of sections more than one pixel high, padded to fit
C8_Witness ==
    /\ pc = "prepared"
    /\ cfg.crop
    /\ Val(prepared).err = ""
    /\ Val(prepared) # do_resize(cfg, Val(image))
    /\ get_section_size(cfg, Val(prepared))[2] >= 2
    /\ Val(prepared).height >= 2 * get_section_size(cfg, Val(prepared))[2]
    /\ \E q \in DOMAIN Val(prepared).px : q[2] = 0 /\ Val(prepared).px[q] = Transparent

\* C9: do_resize applied to an image do_resize returned, under the same
\* settings, returns that image: same size, nothing resized, nothing padded.
C9_Idempotent ==
    pc = "again" => Val(resized2) = Val(resized)

-----------------------------------------------------------------------------
(* Properties of the sampler (under SpecMatrix)                            *)

\* C10: a pixel is lit iff alpha >= 0x80 and, unless fill_all, its
\* brightness 0.299 R + 0.587 G + 0.114 B is >= 0x80 (invert off) or
\* < 0x80 (invert on).
C10_VisibilityRule ==
    pc = "matrix" =>
        \A q \in DOMAIN Val(matrix).cell :
            LET p == Val(matrix).cell[q].rgba
                bright == 299 * p.r + 587 * p.g + 114 * p.b >= 128000
            IN  Val(matrix).cell[q].vi =
                    IF cfg.fill_all THEN p.a >= 128
                    ELSE IF ~cfg.invert THEN p.a >= 128 /\ bright
                    ELSE p.a >= 128 /\ ~bright

-----------------------------------------------------------------------------
(* Properties of the converter's cache (under Spec)                         *)

-----------------------------------------------------------------------------
(* Properties of the invert setting (under SpecMatrix)                     *)

\* The matrix get_matrix returns for the same image with invert the other
\* way round
OtherInvert == get_matrix([cfg EXCEPT !.invert = ~cfg.invert], Val(image))

-----------------------------------------------------------------------------
(* Properties of the colour markers that render records: SpecRender *)

\* The column at which the text of the section at s starts in its row: the
\* lengths of the texts of the sections to its left
RECURSIVE RowOffset(_, _, _)
RowOffset(text, size, s) ==
    IF s[1] = 0 THEN 0
    ELSE LET t == <<s[1] - size[1], s[2]>>
         IN  RowOffset(text, size, t) + Len(text[t])

-----------------------------------------------------------------------------
(* load on its own: files around and beyond the size at which load scales  *)
(* them down.  The files are of one colour, which every resampling filter  *)
(* keeps, and of sizes for which 2000 / max(width, height) is either exact *)
(* in binary or keeps the product away from a half, so that the rounding   *)
(* of the floats is the rounding of the exact quotient.                    *)

MaxShort == 3
LongSides == {1999, 2000, 2001, 2500, 4000, 4001}
FileModes == {"L", "RGB", "RGBA"}
LargeFiles ==
    {[Img(s[1], s[2], [p \in Coords(s[1], s[2]) |-> White]) EXCEPT !.mode = md] :
        s \in (LongSides \X (1 .. MaxShort)) \cup ((1 .. MaxShort) \X LongSides),
        md \in FileModes}

\* The first load of a converter
LoadLarge == file = None /\ LoadFrom(LargeFiles)

NextLoad == LoadLarge

SpecLoad == Init /\ [][NextLoad]_vars

\* C13: after a load that succeeded, the stored image is RGBA and neither
\* side is longer than 2000; a file with a side beyond 2000 is stored at
\* round(width * 2000 / longest) by round(height * 2000 / longest), any
\* other file at its own size.
C13_LoadBounds ==
    (op = "load" /\ ret.err = "") =>
        LET f == Val(file)
            longest == Max(f.width, f.height)
            im == Val(image)
        IN  /\ image # None
            /\ im.mode = "RGBA"
            /\ im.width <= 2000 /\ im.height <= 2000
            /\ IF f.width > 2000 \/ f.height > 2000
               THEN /\ im.width = PyRound(f.width * 2000, longest)
                    /\ im.height = PyRound(f.height * 2000, longest)
               ELSE im.width = f.width /\ im.height = f.height
            /\ DOMAIN im.px = Coords(im.width, im.height)

\* A 4000 x 3 file in mode RGB is stored as a 2000 x 2 RGBA image
C13_Witness ==
    /\ op = "load" /\ ret.err = ""
    /\ Val(file).width = 4000 /\ Val(file).height = 3 /\ Val(file).mode = "RGB"
    /\ Val(image).width = 2000 /\ Val(image).height = 2 /\ Val(image).mode = "RGBA"


-----------------------------------------------------------------------------
(* Properties of the stored image: Spec *)

-----------------------------------------------------------------------------
(* A Config on its own: assignments of Python objects of every kind to     *)
(* every field of a new Config that has one listener                       *)

MaxAssign == 2

Assigned ==
    {PyBool(TRUE), PyBool(FALSE), PyIntObj(0), PyIntObj(3), PyFloat(<<3, 2>>), PyFloat(<<-1, 2>>),
     PyNone, PyList, PyType("HTMLFormatter"), PyType("HTMLANSIColorConverter"), PyType("int")}
        \cup {PyStr(s) : s \in {"yes", "YES", "off", "maybe", "", "12", " 7 ", "1.5", "abc", "nan",
                               "image2ascii.output.HTMLFormatter",
                               "image2ascii.color.ANSIColorConverter",
                               "image2ascii.core.EMPTY_CHARACTER",
                               "image2ascii.output.NoSuch", "HTMLFormatter"}}

\* setattr(config, name, x)
Assign ==
    /\ changes < MaxAssign
    /\ \E name \in DOMAIN ConfigFields, x \in Assigned :
        \E r \in {Config_setattr(config, notified, name, x)} :
            /\ config' = r.fields
            /\ notified' = r.notes
            /\ attempt' = Some([name |-> name, value |-> x])
            /\ ret' = [text |-> <<>>, err |-> r.err]
            /\ op' = "assign"
            /\ changes' = changes + 1
            /\ UNCHANGED <<image, cfg, shapes, output, last_text, recomputed, dropped, failed,
                           file, pure, held, store>>

NextConfig == Assign

SpecConfig == Init /\ [][NextConfig]_vars

\* What a field cannot hold: for a boolean field a string that is none of
\* the eight words, for a number field a string that is no numeral, for a
\* type field a string that names no class or a class that is not of the
\* declared kind, and for each an object of a foreign type.
BooleanWords == {"1", "yes", "true", "on", "0", "no", "false", "off"}
Numerals == {l[1] : l \in IntLiterals \cup FloatLiterals}
Subclasses ==
    [BaseFormatter |-> {"BaseFormatter", "ANSIFormatter", "HTMLFormatter"},
     BaseColorConverter |-> {"BaseColorConverter", "ANSIColorConverter", "HTMLANSIColorConverter",
                             "HTMLFullRGBColorConverter"}]

Malformed(name, x) ==
    LET kind == ConfigFields[name]
    IN  CASE kind = "BoolValue" ->
                \/ x[1] = "str" /\ Lower(x[2]) \notin BooleanWords
                \/ x[1] \notin {"bool", "int", "float", "str"}
          [] kind \in {"IntValue", "FloatValue"} ->
                \/ x[1] = "str" /\ x[2] \notin Numerals
                \/ x[1] \notin {"bool", "int", "float", "str"}
          [] kind = "NullableIntValue" ->
                \/ x[1] = "str" /\ x[2] \notin Numerals
                \/ x[1] \notin {"bool", "int", "float", "str", "NoneType"}
          [] OTHER ->
                LET named == IF x[1] = "str" THEN import_string(x[2]) ELSE Cast(x)
                IN  /\ ~(kind = "NullableTypeValue" /\ x[1] = "NoneType")
                    /\ \/ named.err # ""
                       \/ named.value[1] # "type"
                       \/ named.value[2] \notin Subclasses[DeclaredType[name]]

\* C15: the assignment of a malformed value to a field of a Config raises
\* at the assignment, leaves the field at its previous value and tells no
\* listener.
C15_MalformedRejected ==
    [][(op' = "assign" /\ Malformed(Val(attempt').name, Val(attempt').value))
            => (ret'.err # "" /\ config' = config /\ notified' = notified)]_vars


-----------------------------------------------------------------------------
(* Properties of the section size and of the planned width: SpecResize *)

\* C16: the section size of a resized image is floor(width / ascii_width)
\* by round(sectionWidth * ascii_ratio), each at least 1; get_section_size
\* returns that pair and do_resize has used it: the height it returns is a
\* multiple of that section height.
C16_SectionSize ==
    (pc = "resized" /\ Val(resized).err = "") =>
        LET r == Val(resized)
            sectionWidth == Max(1, r.width \div cfg.ascii_width)
            sectionHeight == Max(1, PyRound(sectionWidth * cfg.ascii_ratio[1], cfg.ascii_ratio[2]))
        IN  /\ get_section_size(cfg, r) = <<sectionWidth, sectionHeight>>
            /\ r.height % sectionHeight = 0


\* C17: do_resize returns, for every image and every setting of the width,
\* the quality and the maximal height, an image whose width is a positive
\* multiple of ascii_width and at most ascii_width * quality: end_width
\* rounded down when its remainder is below a quarter of ascii_width and
\* end_width > ascii_width, and rounded up otherwise.
C17_PlannedWidth ==
    pc = "resized" =>
        LET r == Val(resized)
            end_width == CappedWidth(cfg, Val(image))
            remainder == end_width % cfg.ascii_width
        IN  /\ r.err = ""
            /\ r.width > 0
            /\ r.width % cfg.ascii_width = 0
            /\ r.width <= cfg.ascii_width * cfg.quality
            /\ r.width = IF remainder = 0 THEN end_width
                         ELSE IF 4 * remainder < cfg.ascii_width /\ end_width > cfg.ascii_width
                         THEN end_width - remainder
                         ELSE end_width + (cfg.ascii_width - remainder)


\* C18: with ascii_max_height set, the image that do_resize returns is no
\* higher than ascii_max_height * quality * ascii_ratio.
C18_HeightCap ==
    (pc = "resized" /\ cfg.ascii_max_height # None /\ Val(resized).err = "") =>
        Val(resized).height * cfg.ascii_ratio[2]
            <= Val(cfg.ascii_max_height) * cfg.quality * cfg.ascii_ratio[1]


-----------------------------------------------------------------------------
(* Properties of the choice of a character in render: SpecShape *)

-----------------------------------------------------------------------------
(* Properties of one worked rendering: Spec *)

\* The file of two by two opaque white pixels
WhiteSquare == Img(2, 2, [p \in Coords(2, 2) |-> White])

-----------------------------------------------------------------------------
(* Properties of the shape of the output: Spec, SpecRender *)

-----------------------------------------------------------------------------
(* An Output and a formatter on their own: a caller builds Outputs with    *)
(* add_text, add_br and add_color and renders them with one formatter that *)
(* it keeps, an HTMLFormatter or an ANSIFormatter with any of the colour   *)
(* converters.  A call that raises leaves the Output as it was.            *)

MaxCalls == 5        \* calls on one Output
MaxChars == 3        \* characters held by one Output

Texts == {FILLED_CHARACTER, DEGREE_CHARACTERS}
MarkerColors == {<<255, 255, 255>>, <<1, 2, 3>>}
ConverterClasses == {"ANSIColorConverter", "HTMLANSIColorConverter", "HTMLFullRGBColorConverter"}

RECURSIVE Chars(_)
Chars(rows) == IF rows = <<>> THEN 0 ELSE Len(Head(rows)) + Chars(Tail(rows))

InitOutput ==
    /\ image = None /\ cfg = DefaultCfg /\ shapes = <<>>
    /\ resized = None /\ resized2 = None /\ prepared = None
    /\ section = BoolMatrix(0, 0, {}) /\ lk = NoLk /\ char = None /\ matrix = None
    /\ pc = "start"
    /\ output = Some(NewOutput) /\ ret = NoReturn /\ last_text = None /\ recomputed = FALSE
    /\ op = "init" /\ changes = 0 /\ dropped = "" /\ failed = FALSE /\ file = None
    /\ config = NewConfig /\ notified = <<>> /\ attempt = None
    /\ passed = None /\ crop_box = None
    /\ shelf = <<>> /\ now = 0 /\ removed = {}
    /\ \E fc \in Formatters, cc \in ConverterClasses :
          formatter = Some([f |-> Formatter(fc, Some(cc)), open_span |-> FALSE])

\* One call on the Output: what it leaves, or the error it raises
Call(name, x, o) ==
    /\ changes < MaxCalls
    /\ changes' = changes + 1
    /\ op' = name
    /\ passed' = x
    /\ output' = IF o.err = "" THEN Some(o) ELSE output
    /\ ret' = [text |-> <<>>, err |-> o.err]
    /\ UNCHANGED <<image, cfg, shapes, last_text, recomputed, dropped, failed, file, pure, conf,
                   formatter, crop_box, store>>

AddText ==
    \E text \in Texts :
        /\ Chars(Val(output).rows) + Len(text) <= MaxChars
        /\ Call("add_text", Some(text), add_text(Val(output), text))

AddBr == Call("add_br", None, add_br(Val(output)))

AddColor == \E color \in MarkerColors : Call("add_color", Some(color), add_color(Val(output), color))

\* output = Output()
NewOut ==
    /\ op = "format"
    /\ output' = Some(NewOutput)
    /\ op' = "init" /\ changes' = 0 /\ passed' = None /\ ret' = NoReturn
    /\ UNCHANGED <<image, cfg, shapes, last_text, recomputed, dropped, failed, file, pure, conf,
                   formatter, crop_box, store>>

\* formatter.render(output)
Format ==
    /\ op # "format"
    /\ \E r \in {RenderWith(Val(formatter).f, Val(formatter).open_span, Val(output))} :
        /\ formatter' = Some([Val(formatter) EXCEPT !.open_span = r.open_span])
        /\ ret' = [text |-> IF r.err = "" THEN r.text ELSE <<>>, err |-> r.err]
        /\ op' = "format"
        /\ passed' = None
        /\ UNCHANGED <<image, cfg, shapes, output, last_text, recomputed, changes, dropped, failed,
                       file, pure, conf, crop_box, store>>

NextOutput == AddText \/ AddBr \/ AddColor \/ NewOut \/ Format

SpecOutput == InitOutput /\ [][NextOutput]_vars


-----------------------------------------------------------------------------
(* Properties of the formatters and of Output: SpecOutput *)

\* The spans open after the first i pieces of a text
RECURSIVE SpanDepth(_, _)
SpanDepth(text, i) ==
    IF i = 0 THEN 0
    ELSE SpanDepth(text, i - 1)
            + (IF text[i].kind = "tag" /\ text[i].text = "<span>" THEN 1
               ELSE IF text[i].kind = "tag" /\ text[i].text = "</span>" THEN -1
               ELSE 0)

\* C23: the text that HTMLFormatter.render returns, for any Output and any
\* colour markers and whatever the formatter rendered before, has at most
\* one span open at any point and never closes a span that is not open; it
\* starts with <pre>, ends with </pre> and has no span open before that
\* closing tag; and the formatter's open_span is False on return.
C23_OneSpan ==
    (op = "format" /\ ret.err = "" /\ Val(formatter).f.name = "HTMLFormatter") =>
        LET text == ret.text
            n == Len(text)
        IN  /\ n >= 2
            /\ text[1] = Tok("tag", "<pre>", <<0, 0, 0>>)
            /\ text[n] = Tok("tag", "</pre>", <<0, 0, 0>>)
            /\ \A i \in 0 .. n : SpanDepth(text, i) \in {0, 1}
            /\ SpanDepth(text, n - 1) = 0
            /\ \A i \in 2 .. n - 1 : text[i].kind = "tag" => text[i].text \in {"<span>", "</span>"}
            /\ Val(formatter).open_span = FALSE

\* An HTML text with two spans, the first closed before the second opens
C23_Witness ==
    /\ op = "format" /\ ret.err = "" /\ Val(formatter).f.name = "HTMLFormatter"
    /\ Cardinality({i \in 1 .. Len(ret.text) : ret.text[i].text = "<span>"}) = 2
    /\ Cardinality({i \in 1 .. Len(ret.text) : ret.text[i].text = "</span>"}) = 2
    /\ \E i \in 1 .. Len(ret.text) - 1 :
          ret.text[i].text = "</span>" /\ ret.text[i + 1].text = "<span>"


-----------------------------------------------------------------------------
(* Properties of the glyphs asked about a matrix of another size: SpecShape *)

\* C24: the likeness of a glyph (Empty, Filled or Polygon) with a matrix
\* whose width or height is not the one the glyph was constructed for
\* raises an error; it never returns a score.
C24_SizeChecked ==
    (/\ pc \in {"raised", "scored"}
     /\ \/ shapes[lk.glyph].width # section.width
        \/ shapes[lk.glyph].height # section.height) => pc = "raised"


\* C25: after any add_text, add_br and add_color calls on an Output (a
\* line break on a row without text and several line breaks in a row
\* included), add_text does not raise; the text is appended to the row
\* with index row_ptr, which add_text leaves as it is, no other row
\* changes, and col_ptr is then the length of that row.
C25_AddText ==
    [][op' = "add_text" =>
            LET o == Val(output)
                after == Val(output')
                text == Val(passed')
                row == IF o.row_ptr < Len(o.rows) THEN o.rows[o.row_ptr + 1] ELSE <<>>
            IN  /\ ret'.err = ""
                /\ after.row_ptr = o.row_ptr
                /\ after.row_ptr < Len(after.rows)
                /\ after.rows[after.row_ptr + 1] = row \o text
                /\ \A y \in 1 .. Len(o.rows) : y # o.row_ptr + 1 => after.rows[y] = o.rows[y]
                /\ after.col_ptr = Len(after.rows[after.row_ptr + 1])]_vars


-----------------------------------------------------------------------------
(* Properties of the markers in the rendered text: SpecRender *)

\* The characters among the first i pieces of a text
CharsBefore(text, i) == Cardinality({j \in 1 .. i : text[j].kind = "char"})

-----------------------------------------------------------------------------
(* Properties of the crop box: SpecCrop *)

\* C27: for a matrix of width and height at least 1 with a visible pixel,
\* get_crop_box returns the tight bounding box of the visible pixels:
\* every visible pixel lies in [left, right) x [upper, lower), and the
\* columns left and right - 1 and the rows upper and lower - 1 each hold a
\* visible pixel.  For a matrix without a visible pixel it returns a box
\* inside the matrix with left < right and upper < lower.
C27_TightBox ==
    pc = "box" =>
        LET m == Val(matrix)
            box == Val(crop_box)
            left == box[1]
            upper == box[2]
            right == box[3]
            lower == box[4]
            visible == {p \in DOMAIN m.cell : m.cell[p].vi}
        IN  /\ m.width >= 1 /\ m.height >= 1
            /\ visible # {} =>
                  /\ \A p \in visible : left <= p[1] /\ p[1] < right /\ upper <= p[2] /\ p[2] < lower
                  /\ \E p \in visible : p[1] = left
                  /\ \E p \in visible : p[1] = right - 1
                  /\ \E p \in visible : p[2] = upper
                  /\ \E p \in visible : p[2] = lower - 1
            /\ visible = {} =>
                  /\ 0 <= left /\ left < right /\ right <= m.width
                  /\ 0 <= upper /\ upper < lower /\ lower <= m.height

\* The matrix of 3 by 3 whose centre alone is visible: the box is the centre
C27_Witness ==
    /\ pc = "box"
    /\ Val(matrix).width = 3 /\ Val(matrix).height = 3
    /\ {p \in DOMAIN Val(matrix).cell : Val(matrix).cell[p].vi} = {<<1, 1>>}
    /\ crop_box = Some(<<1, 1, 2, 2>>)


-----------------------------------------------------------------------------
(* Properties of the setters' frame: SpecSet *)

\* C28: a setter called with the value the setting has, and a settings
\* method for each parameter that is None or has the setting's value,
\* leaves that setting as it is; a setting that was not passed keeps its
\* value; and when no passed value differs from the setting's, the stored
\* output is kept as well.
C28_SameValue ==
    [][op' = "set" =>
            LET args == Val(passed')
                same == {f \in DOMAIN args : args[f] = None \/ Val(args[f]) = cfg[f]}
            IN  /\ \A f \in DOMAIN cfg : (f \notin DOMAIN args \/ f \in same) => cfg'[f] = cfg[f]
                /\ same = DOMAIN args => (cfg' = cfg /\ output' = output)]_vars

\* size_settings called, after a render, with the ascii_width and the crop
\* that the converter has and nothing else: the output is still stored
C28_Witness ==
    /\ op = "set" /\ output # None /\ passed # None
    /\ DOMAIN Val(passed) = {"ascii_max_height", "ascii_width", "ascii_ratio", "crop"}
    /\ Val(passed).ascii_max_height = None /\ Val(passed).ascii_ratio = None
    /\ Val(passed).ascii_width = Some(cfg.ascii_width)
    /\ Val(passed).crop = Some(cfg.crop)


-----------------------------------------------------------------------------
(* db.py: ShelfDB.  A session is a record of its uuid, the day it was      *)
(* created, its filename, its config and keep_file; the sessions are a     *)
(* function of the uuids.  The uuid of the n-th session made is n.         *)

KEEP_DAYS == 7

\* Session(filename, config, keep_file) made on day `day`
Session(uuid, day, filename, conf_, keep_file) ==
    [uuid |-> uuid, datetime |-> day, filename |-> filename, config |-> conf_,
     keep_file |-> keep_file]

\* sessions[session.uuid] = session
Put(sessions, session) ==
    [u \in DOMAIN sessions \cup {session.uuid} |->
        IF u = session.uuid THEN session ELSE sessions[u]]

\* ShelfDB.purge that deletes the file of every session without keep_file
purge_forgets_retained(sessions, day) ==
    LET old_files == {sessions[u].filename : u \in {v \in DOMAIN sessions : ~sessions[v].keep_file}}
        kept == {u \in DOMAIN sessions : sessions[u].datetime >= day - KEEP_DAYS}
    IN  [sessions |-> [u \in kept |-> sessions[u]], removed |-> old_files]

\* ShelfDB.purge: the sessions it stores and the files it removes
purge(sessions, day) ==
    LET old_files == {sessions[u].filename : u \in {v \in DOMAIN sessions : ~sessions[v].keep_file}}
        kept == {u \in DOMAIN sessions : sessions[u].datetime >= day - KEEP_DAYS}
    IN  [sessions |-> [u \in kept |-> sessions[u]],
         removed |-> old_files \ {sessions[u].filename : u \in kept}]

\* ShelfDB.create
create(sessions, day, uuid, filename, conf_, keep_file) ==
    purge(Put(sessions, Session(uuid, day, filename, conf_, keep_file)), day)

\* ShelfDB.update for a uuid that is stored
update(sessions, day, new_uuid, uuid, conf_) ==
    LET session == sessions[uuid]
    IN  IF session.config # conf_
        THEN purge(Put(sessions, Session(new_uuid, day, session.filename, conf_,
                                         session.keep_file)), day)
        ELSE purge(sessions, day)

-----------------------------------------------------------------------------
(* A ShelfDB on its own: sessions are created, updated and purged while    *)
(* the days pass                                                           *)

MaxSessions == 2     \* sessions made
MaxDay == 12         \* the last day
Filenames == {"a.png", "b.png"}
Configs == {"default", "inverted"}
Waits == {3, 4}

InitDB ==
    /\ image = None /\ cfg = DefaultCfg /\ shapes = <<>>
    /\ resized = None /\ resized2 = None /\ prepared = None
    /\ section = BoolMatrix(0, 0, {}) /\ lk = NoLk /\ char = None /\ matrix = None
    /\ pc = "start"
    /\ ConverterIdle

\* A call on the database: what it stores and removes
Stored(name, r) ==
    /\ shelf' = r.sessions
    /\ removed' = r.removed
    /\ op' = name
    /\ ret' = NoReturn
    /\ UNCHANGED <<image, cfg, shapes, output, last_text, recomputed, dropped, failed, file,
                   pure, conf, held, now>>

Create ==
    /\ changes < MaxSessions
    /\ changes' = changes + 1
    /\ \E filename \in Filenames, c \in Configs, keep_file \in BOOLEAN :
          Stored("create", create(shelf, now, changes + 1, filename, c, keep_file))

Update ==
    /\ changes < MaxSessions
    /\ \E uuid \in 1 .. MaxSessions, c \in Configs :
          IF uuid \in DOMAIN shelf
          THEN /\ changes' = IF shelf[uuid].config # c THEN changes + 1 ELSE changes
               /\ Stored("update", update(shelf, now, changes + 1, uuid, c))
          ELSE /\ op' = "update"
               /\ ret' = [text |-> <<>>, err |-> "KeyError"]
               /\ UNCHANGED <<image, cfg, shapes, output, last_text, recomputed, changes, dropped,
                              failed, file, pure, conf, held, store>>

Purge ==
    /\ UNCHANGED changes
    /\ Stored("purge", purge(shelf, now))

\* Days pass
Wait ==
    /\ \E d \in Waits : now + d <= MaxDay /\ now' = now + d
    /\ op' = "wait"
    /\ ret' = NoReturn
    /\ UNCHANGED <<image, cfg, shapes, output, last_text, recomputed, changes, dropped, failed,
                   file, pure, conf, held, shelf, removed>>

NextDB == Create \/ Update \/ Purge \/ Wait

SpecDB == InitDB /\ [][NextDB]_vars

-----------------------------------------------------------------------------
(* Properties of the session store: SpecDB *)

\* C29: after any create, update and purge calls, a purge (on its own or
\* at the end of create or update) stores exactly the sessions made within
\* the last KEEP_DAYS days, unchanged; the files it removes are referenced
\* by no session that it stores, and each of them was the file of a
\* session with keep_file false.
C29_Purge ==
    [][(op' \in {"create", "update", "purge"} /\ ret'.err = "") =>
            LET made == DOMAIN shelf' \ DOMAIN shelf
                Recent(s) == s.datetime >= now' - KEEP_DAYS
            IN  /\ \A u \in DOMAIN shelf' : Recent(shelf'[u])
                /\ \A u \in DOMAIN shelf :
                      Recent(shelf[u]) => (u \in DOMAIN shelf' /\ shelf'[u] = shelf[u])
                /\ \A u \in made : shelf'[u].datetime = now'
                /\ Cardinality(made) <= 1
                /\ op' = "create" => Cardinality(made) = 1
                /\ op' = "purge" => made = {}
                /\ \A f \in removed' :
                      /\ \A u \in DOMAIN shelf' : shelf'[u].filename # f
                      /\ \E u \in DOMAIN shelf : shelf[u].filename = f /\ ~shelf[u].keep_file]_vars

\* A purge that removed the file of an old session while it kept a newer
\* session of another file, itself without keep_file
C29_Witness ==
    /\ op \in {"create", "update", "purge"}
    /\ removed = {"a.png"}
    /\ \E u \in DOMAIN shelf : shelf[u].filename = "b.png" /\ ~shelf[u].keep_file


-----------------------------------------------------------------------------
(* Config.from_file on its own: files of up to MaxFileRows rows, with and  *)
(* without "=", for fields of every kind and for a name that is no field   *)

MaxFileRows == 2

FileKeys == {"invert", "width", "ratio", "formatter_class", "colour"}
FileValues ==
    {"yes", "maybe", "12", "1.5", "image2ascii.output.HTMLFormatter",
     "image2ascii.output.NoSuch", "image2ascii.core.EMPTY_CHARACTER"}
FileRows == {<<"no equals sign">>} \cup {<<k, v>> : k \in FileKeys, v \in FileValues}
ConfigFiles == UNION {[1 .. n -> FileRows] : n \in 0 .. MaxFileRows}

\* Config.from_file(file)
FromFile ==
    /\ op = "init"
    /\ \E rows \in ConfigFiles :
        \E r \in {Config_from_file(rows)} :
            /\ passed' = Some(rows)
            /\ config' = IF r.err = "" THEN r.fields ELSE config
            /\ ret' = [text |-> <<>>, err |-> r.err]
            /\ op' = "from_file"
            /\ UNCHANGED <<image, cfg, shapes, output, last_text, recomputed, changes, dropped,
                           failed, file, pure, notified, attempt, formatter, crop_box, store>>

NextFile == FromFile

SpecFile == Init /\ [][NextFile]_vars

-----------------------------------------------------------------------------
(* Properties of Config.from_file: SpecFile *)

\* C30: from_file does not raise whatever the rows hold, and the Config it
\* returns has, for every field, the value of the last row that names the
\* field and whose value the field's cast accepts, or the value of a new
\* Config if there is no such row: rows without "=" and rows whose value
\* fails the cast are skipped and the rows after them are applied.
C30_RowsSkipped ==
    op = "from_file" =>
        LET rows == Val(passed)
            Good(name) == {i \in 1 .. Len(rows) :
                              /\ Len(rows[i]) = 2
                              /\ rows[i][1] = name
                              /\ cast(name, PyStr(rows[i][2])).err = ""}
            Last(name) == CHOOSE i \in Good(name) : \A j \in Good(name) : j <= i
        IN  /\ ret.err = ""
            /\ \A name \in DOMAIN ConfigFields :
                  config[name] = IF Good(name) = {} THEN NewConfig[name]
                                 ELSE cast(name, PyStr(rows[Last(name)][2])).value

=============================================================================
